---- MODULE Spec2Model ----
(***************************************************************************)
(* DOB decoder standalone server: the decode pipeline of src/server.rs and *)
(* src/decoder.rs as a state machine.                                      *)
(*                                                                         *)
(* Text that the code inspects character by character (identifiers, cache  *)
(* files, JSON) is a sequence of one-character strings; file names, which  *)
(* the code only builds and compares, are strings.  Bytes are 0..255.      *)
(***************************************************************************)
EXTENDS Naturals, Integers, Sequences, FiniteSets, TLC

(***************************************************************************)
(* Text and hex (hex::decode / hex::encode as the code calls them)         *)
(***************************************************************************)

\* [u8; 32]: the width of a spore id, a cluster id and a decoder hash
IdBytes == 32

NL == "\n"
\* backspace and form feed, the control characters JSON escapes as \b and \f
BS == "<BS>"
FF == "<FF>"
QUOTE == "\""
BSLASH == "\\"

HexDigits == <<"0", "1", "2", "3", "4", "5", "6", "7",
               "8", "9", "a", "b", "c", "d", "e", "f">>
HexUpper == <<"0", "1", "2", "3", "4", "5", "6", "7",
              "8", "9", "A", "B", "C", "D", "E", "F">>

\* value of one hex digit, either case; -1 for any other character
HexValues ==
    "0" :> 0 @@ "1" :> 1 @@ "2" :> 2 @@ "3" :> 3 @@ "4" :> 4 @@ "5" :> 5 @@
    "6" :> 6 @@ "7" :> 7 @@ "8" :> 8 @@ "9" :> 9 @@
    "a" :> 10 @@ "b" :> 11 @@ "c" :> 12 @@ "d" :> 13 @@ "e" :> 14 @@ "f" :> 15 @@
    "A" :> 10 @@ "B" :> 11 @@ "C" :> 12 @@ "D" :> 13 @@ "E" :> 14 @@ "F" :> 15
HexVal(c) == IF c \in DOMAIN HexValues THEN HexValues[c] ELSE -1

\* hex::decode: odd length and a non-hex character are both errors
HexDecode(s) ==
    IF Len(s) % 2 # 0 \/ \E i \in 1..Len(s) : HexVal(s[i]) < 0
    THEN [ok |-> FALSE, val |-> <<>>]
    ELSE [ok |-> TRUE,
          val |-> [i \in 1..(Len(s) \div 2) |->
                     16 * HexVal(s[2 * i - 1]) + HexVal(s[2 * i])]]

\* hex::encode: two lower-case digits per byte
HexEncode(bytes) ==
    [i \in 1..(2 * Len(bytes)) |->
        IF i % 2 = 1 THEN HexDigits[(bytes[(i + 1) \div 2] \div 16) + 1]
                     ELSE HexDigits[(bytes[i \div 2] % 16) + 1]]

\* the characters of a text joined into one string (format!, PathBuf::push)
RECURSIVE Cat(_)
Cat(s) == IF s = <<>> THEN "" ELSE Head(s) \o Cat(Tail(s))

\* str::strip_prefix("0x").unwrap_or(s)
StripPrefix0x(s) ==
    IF Len(s) >= 2 /\ s[1] = "0" /\ s[2] = "x" THEN SubSeq(s, 3, Len(s)) ELSE s

(***************************************************************************)
(* serde_json::Value, serde_json::to_string and serde_json::from_str       *)
(* Values are records tagged by t; an object is its members in key order   *)
(* (serde_json's map is ordered by key and holds a key once).              *)
(***************************************************************************)

JNull == [t |-> "null"]
JBool(b) == [t |-> "bool", b |-> b]
JNum(n) == [t |-> "num", n |-> n]
JStr(s) == [t |-> "str", s |-> s]
JArr(a) == [t |-> "arr", a |-> a]
JObj(o) == [t |-> "obj", o |-> o]

Digits == <<"0", "1", "2", "3", "4", "5", "6", "7", "8", "9">>
IsDigit(c) == \E i \in 1..10 : Digits[i] = c
DigitVal(c) == (CHOOSE i \in 1..10 : Digits[i] = c) - 1
IsWs(c) == c \in {" ", NL, "\t", "\r"}

\* rank of a character in the order keys are compared by (byte order)
CharOrder == <<NL, " ", QUOTE, ",", "0", "1", "2", "3", "4", "5", "6", "7",
               "8", "9", ":", "[", BSLASH, "]", "a", "b", "c", "d", "e", "f",
               "g", "l", "n", "r", "s", "t", "u", "x", "{", "}">>
CharRank(c) ==
    IF \E i \in 1..Len(CharOrder) : CharOrder[i] = c
    THEN CHOOSE i \in 1..Len(CharOrder) : CharOrder[i] = c
    ELSE Len(CharOrder) + 1

RECURSIVE StrLess(_, _)
StrLess(a, b) ==
    IF b = <<>> THEN FALSE
    ELSE IF a = <<>> THEN TRUE
    ELSE IF CharRank(Head(a)) # CharRank(Head(b))
         THEN CharRank(Head(a)) < CharRank(Head(b))
         ELSE StrLess(Tail(a), Tail(b))

\* decimal digits of a natural number
RECURSIVE NatToStr(_)
NatToStr(n) ==
    IF n < 10 THEN <<Digits[n + 1]>>
    ELSE NatToStr(n \div 10) \o <<Digits[(n % 10) + 1]>>

\* a string's characters with the JSON escapes serde_json writes
RECURSIVE EscapeStr(_)
EscapeStr(s) ==
    IF s = <<>> THEN <<>>
    ELSE (CASE Head(s) = QUOTE -> <<BSLASH, QUOTE>>
            [] Head(s) = BSLASH -> <<BSLASH, BSLASH>>
            [] Head(s) = NL -> <<BSLASH, "n">>
            [] Head(s) = "\t" -> <<BSLASH, "t">>
            [] Head(s) = "\r" -> <<BSLASH, "r">>
            [] Head(s) = BS -> <<BSLASH, "b">>
            [] Head(s) = FF -> <<BSLASH, "f">>
            [] OTHER -> <<Head(s)>>) \o EscapeStr(Tail(s))

\* serde_json::to_string: the compact form, no white space
RECURSIVE ToJsonString(_), ArrToString(_), ObjToString(_)
ToJsonString(v) ==
    CASE v.t = "null" -> <<"n", "u", "l", "l">>
      [] v.t = "bool" -> IF v.b THEN <<"t", "r", "u", "e">>
                                ELSE <<"f", "a", "l", "s", "e">>
      [] v.t = "num" -> NatToStr(v.n)
      [] v.t = "str" -> <<QUOTE>> \o EscapeStr(v.s) \o <<QUOTE>>
      [] v.t = "arr" -> <<"[">> \o ArrToString(v.a) \o <<"]">>
      [] v.t = "obj" -> <<"{">> \o ObjToString(v.o) \o <<"}">>
ArrToString(a) ==
    IF a = <<>> THEN <<>>
    ELSE ToJsonString(Head(a))
         \o (IF Len(a) > 1 THEN <<",">> \o ArrToString(Tail(a)) ELSE <<>>)
ObjToString(o) ==
    IF o = <<>> THEN <<>>
    ELSE <<QUOTE>> \o EscapeStr(Head(o)[1]) \o <<QUOTE, ":">>
         \o ToJsonString(Head(o)[2])
         \o (IF Len(o) > 1 THEN <<",">> \o ObjToString(Tail(o)) ELSE <<>>)

IsControl(c) == c \in {NL, "\t", "\r", BS, FF}

ParseFail == [ok |-> FALSE, val |-> JNull, rest |-> <<>>]
ParseOk(v, rest) == [ok |-> TRUE, val |-> v, rest |-> rest]

RECURSIVE SkipWs(_)
SkipWs(s) == IF s # <<>> /\ IsWs(Head(s)) THEN SkipWs(Tail(s)) ELSE s

HasPrefix(s, p) == Len(s) >= Len(p) /\ SubSeq(s, 1, Len(p)) = p
Drop(s, n) == SubSeq(s, n + 1, Len(s))

\* a string's characters after the opening quote, up to the closing quote;
\* a raw control character and an unknown escape are errors (the texts of
\* this model hold no \u escape)
RECURSIVE ParseStrBody(_, _)
ParseStrBody(s, acc) ==
    IF s = <<>> THEN ParseFail
    ELSE IF Head(s) = QUOTE THEN ParseOk(JStr(acc), Tail(s))
    ELSE IF Head(s) = BSLASH
         THEN IF Len(s) < 2 THEN ParseFail
              ELSE CASE s[2] = QUOTE -> ParseStrBody(Drop(s, 2), Append(acc, QUOTE))
                     [] s[2] = BSLASH -> ParseStrBody(Drop(s, 2), Append(acc, BSLASH))
                     [] s[2] = "/" -> ParseStrBody(Drop(s, 2), Append(acc, "/"))
                     [] s[2] = "n" -> ParseStrBody(Drop(s, 2), Append(acc, NL))
                     [] s[2] = "t" -> ParseStrBody(Drop(s, 2), Append(acc, "\t"))
                     [] s[2] = "r" -> ParseStrBody(Drop(s, 2), Append(acc, "\r"))
                     [] s[2] = "b" -> ParseStrBody(Drop(s, 2), Append(acc, BS))
                     [] s[2] = "f" -> ParseStrBody(Drop(s, 2), Append(acc, FF))
                     [] OTHER -> ParseFail
    ELSE IF IsControl(Head(s)) THEN ParseFail
    ELSE ParseStrBody(Tail(s), Append(acc, Head(s)))

\* the digits of a natural number; a leading zero stands alone (the texts of
\* this model hold no sign, fraction or exponent)
RECURSIVE ParseDigits(_, _)
ParseDigits(s, n) ==
    IF s # <<>> /\ IsDigit(Head(s))
    THEN ParseDigits(Tail(s), 10 * n + DigitVal(Head(s)))
    ELSE ParseOk(JNum(n), s)
ParseNumber(s) ==
    IF Head(s) = "0"
    THEN IF Len(s) >= 2 /\ IsDigit(s[2]) THEN ParseFail ELSE ParseOk(JNum(0), Tail(s))
    ELSE ParseDigits(s, 0)

\* a member put into an object's key-ordered members; a repeated key keeps
\* its last value
RECURSIVE ObjInsert(_, _, _)
ObjInsert(o, k, v) ==
    IF o = <<>> THEN <<<<k, v>>>>
    ELSE IF Head(o)[1] = k THEN <<<<k, v>>>> \o Tail(o)
    ELSE IF StrLess(k, Head(o)[1]) THEN <<<<k, v>>>> \o o
    ELSE <<Head(o)>> \o ObjInsert(Tail(o), k, v)

RECURSIVE ParseValue(_), ParseElems(_, _), ParseMembers(_, _)
ParseValue(s0) ==
    LET s == SkipWs(s0) IN
    IF s = <<>> THEN ParseFail
    ELSE IF HasPrefix(s, <<"n", "u", "l", "l">>) THEN ParseOk(JNull, Drop(s, 4))
    ELSE IF HasPrefix(s, <<"t", "r", "u", "e">>) THEN ParseOk(JBool(TRUE), Drop(s, 4))
    ELSE IF HasPrefix(s, <<"f", "a", "l", "s", "e">>) THEN ParseOk(JBool(FALSE), Drop(s, 5))
    ELSE IF IsDigit(Head(s)) THEN ParseNumber(s)
    ELSE IF Head(s) = QUOTE THEN ParseStrBody(Tail(s), <<>>)
    ELSE IF Head(s) = "["
         THEN LET t == SkipWs(Tail(s)) IN
              IF t # <<>> /\ Head(t) = "]" THEN ParseOk(JArr(<<>>), Tail(t))
              ELSE ParseElems(t, <<>>)
    ELSE IF Head(s) = "{"
         THEN LET t == SkipWs(Tail(s)) IN
              IF t # <<>> /\ Head(t) = "}" THEN ParseOk(JObj(<<>>), Tail(t))
              ELSE ParseMembers(t, <<>>)
    ELSE ParseFail
\* the elements of an array after "[" or ",": a value, then "," or "]"
ParseElems(s, acc) ==
    LET e == ParseValue(s) IN
    IF ~e.ok THEN ParseFail
    ELSE LET t == SkipWs(e.rest) IN
         IF t = <<>> THEN ParseFail
         ELSE IF Head(t) = "," THEN ParseElems(Tail(t), Append(acc, e.val))
         ELSE IF Head(t) = "]" THEN ParseOk(JArr(Append(acc, e.val)), Tail(t))
         ELSE ParseFail
\* the members of an object after "{" or ",": "key" : value, then "," or "}"
ParseMembers(s0, acc) ==
    LET s == SkipWs(s0) IN
    IF s = <<>> \/ Head(s) # QUOTE THEN ParseFail
    ELSE LET k == ParseStrBody(Tail(s), <<>>) IN
         IF ~k.ok THEN ParseFail
         ELSE LET c == SkipWs(k.rest) IN
              IF c = <<>> \/ Head(c) # ":" THEN ParseFail
              ELSE LET e == ParseValue(Tail(c)) IN
                   IF ~e.ok THEN ParseFail
                   ELSE LET t == SkipWs(e.rest)
                            o == ObjInsert(acc, k.val.s, e.val) IN
                        IF t = <<>> THEN ParseFail
                        ELSE IF Head(t) = "," THEN ParseMembers(Tail(t), o)
                        ELSE IF Head(t) = "}" THEN ParseOk(JObj(o), Tail(t))
                        ELSE ParseFail

\* serde_json::from_str: one value, then nothing but white space
FromJsonStr(s) ==
    LET r == ParseValue(s) IN
    IF r.ok /\ SkipWs(r.rest) = <<>> THEN [ok |-> TRUE, val |-> r.val]
    ELSE [ok |-> FALSE, val |-> JNull]

(***************************************************************************)
(* Results: Result<T, Error>, and a panic (an unwrap of Err, an index out  *)
(* of bounds), which unwinds out of the request                            *)
(***************************************************************************)

Ok(v) == [st |-> "ok", err |-> "", val |-> v, log |-> <<>>]
Err(e, none) == [st |-> "err", err |-> e, val |-> none, log |-> <<>>]
Panic(none) == [st |-> "panic", err |-> "", val |-> none, log |-> <<>>]

(***************************************************************************)
(* The render cache's file format (server.rs, write_dob_to_cache and       *)
(* read_dob_from_cache, the build without the "shuttle" feature)           *)
(***************************************************************************)

\* str::split('\n'): the pieces between the newlines, one more than the
\* newlines
RECURSIVE SplitNL(_, _)
SplitNL(s, cur) ==
    IF s = <<>> THEN <<cur>>
    ELSE IF Head(s) = NL THEN <<cur>> \o SplitNL(Tail(s), <<>>)
    ELSE SplitNL(Tail(s), Append(cur, Head(s)))

NoEntry == [render_output |-> <<>>, dob_content |-> JNull]

\* (a write that leaves out the line break: the fault the round trip of the
\* cache file would show)
DobFileContentUnbroken(render_result, dob_content) ==
    render_result \o ToJsonString(dob_content)

\* the file content write_dob_to_cache hands to fs::write
DobFileContent(render_result, dob_content) ==
    render_result \o <<NL>> \o ToJsonString(dob_content)

\* the entry of a first line and a parsed second line
DobEntry(render_output, content) ==
    IF content.ok THEN Ok([render_output |-> render_output, dob_content |-> content.val])
    ELSE Err("DOBRenderCacheModified", NoEntry)

\* (a reader that takes a missing or unparseable second line for null: the
\* fault that would hide a changed cache file)
DobEntryLenient(lines) ==
    Ok([render_output |-> lines[1],
        dob_content |-> IF Len(lines) < 2 THEN JNull ELSE FromJsonStr(lines[2]).val])

\* the entry of the lines of a cache file: the first two lines count
DobEntryOfLines(lines) ==
    IF Len(lines) < 2 THEN Err("DOBRenderCacheModified", NoEntry)
    ELSE DobEntry(lines[1], FromJsonStr(lines[2]))

\* read_dob_from_cache on the content fs::read_to_string returned
ReadDobFromCache(file_content) == DobEntryOfLines(SplitNL(file_content, <<>>))

\* the cache file of a spore id: "{hex(spore_id)}.dob" in the dobs directory
DobCachePath(spore_id) == Cat(HexEncode(spore_id)) \o ".dob"

\* (a cache file named by the hash alone: the fault two decoders of one
\* hash and different location kinds would show)
DecoderPathByHash(location, hash) == "decoder_" \o Cat(HexEncode(hash)) \o ".bin"

\* the cache file of a decoder: "code_hash_{hex}.bin" or "type_id_{hex}.bin"
DecoderPath(location, hash) ==
    (IF location = "CodeHash" THEN "code_hash_" ELSE "type_id_")
    \o Cat(HexEncode(hash)) \o ".bin"

(***************************************************************************)
(* decode_dob's reading of its argument (server.rs 73-78)                  *)
(***************************************************************************)

NoId == <<>>

\* (a parser that looks at the length before the digits, and one that pads
\* or cuts the bytes to the length of an id: faults the claims on the input
\* errors would show)
ParseSporeIdLengthFirst(hexed_spore_id) ==
    IF Len(StripPrefix0x(hexed_spore_id)) # 2 * IdBytes
    THEN Err("SporeIdLengthInvalid", NoId)
    ELSE IF ~HexDecode(StripPrefix0x(hexed_spore_id)).ok
    THEN Err("HexedSporeIdParseError", NoId)
    ELSE Ok(HexDecode(StripPrefix0x(hexed_spore_id)).val)
ParseSporeIdPadded(hexed_spore_id) ==
    LET decoded == HexDecode(StripPrefix0x(hexed_spore_id)) IN
    IF ~decoded.ok THEN Err("HexedSporeIdParseError", NoId)
    ELSE Ok([i \in 1..IdBytes |-> IF i <= Len(decoded.val) THEN decoded.val[i] ELSE 0])

ParseSporeId(hexed_spore_id) ==
    LET decoded == HexDecode(StripPrefix0x(hexed_spore_id)) IN
    IF ~decoded.ok THEN Err("HexedSporeIdParseError", NoId)
    ELSE IF Len(decoded.val) # IdBytes THEN Err("SporeIdLengthInvalid", NoId)
    ELSE Ok(decoded.val)

(***************************************************************************)
(* decode_spore_data (decoder.rs 336-358)                                  *)
(***************************************************************************)

\* the characters of the bytes the model's payloads are written in; any
\* other byte is no JSON text
AsciiCodes == <<32, 34, 44, 48, 49, 50, 51, 52, 53, 54, 55, 56, 57, 58, 91, 93,
                97, 98, 99, 100, 101, 102, 108, 110, 117, 123, 125>>
AsciiChars == <<" ", QUOTE, ",", "0", "1", "2", "3", "4", "5", "6", "7", "8", "9",
                ":", "[", "]", "a", "b", "c", "d", "e", "f", "l", "n", "u", "{", "}">>
IsAscii(b) == \E i \in 1..Len(AsciiCodes) : AsciiCodes[i] = b
AsciiChar(b) == AsciiChars[CHOOSE i \in 1..Len(AsciiCodes) : AsciiCodes[i] = b]
AsciiCode(c) == AsciiCodes[CHOOSE i \in 1..Len(AsciiChars) : AsciiChars[i] = c]
Bytes(text) == [i \in 1..Len(text) |-> AsciiCode(text[i])]

\* serde_json::from_slice
FromJsonSlice(bytes) ==
    IF \A i \in 1..Len(bytes) : IsAscii(bytes[i])
    THEN FromJsonStr([i \in 1..Len(bytes) |-> AsciiChar(bytes[i])])
    ELSE [ok |-> FALSE, val |-> JNull]

NoContent == [content |-> JNull, dna |-> <<>>]

\* 344-355: where the DNA of a JSON content is: the string itself, the
\* first element of an array, the member "dna" of an object
DnaValue(v) ==
    CASE v.t = "str" -> [some |-> TRUE, v |-> v]
      [] v.t = "arr" ->
           IF v.a = <<>> THEN [some |-> FALSE, v |-> JNull]
           ELSE [some |-> TRUE, v |-> v.a[1]]
      [] v.t = "obj" ->
           IF \E i \in 1..Len(v.o) : v.o[i][1] = <<"d", "n", "a">>
           THEN [some |-> TRUE,
                 v |-> v.o[CHOOSE i \in 1..Len(v.o) : v.o[i][1] = <<"d", "n", "a">>][2]]
           ELSE [some |-> FALSE, v |-> JNull]
      [] OTHER -> [some |-> FALSE, v |-> JNull]

\* 343-357: the content and DNA of a parsed JSON payload
JsonContent(value) ==
    IF ~value.ok THEN Err("DOBContentUnexpected", NoContent)
    ELSE IF DnaValue(value.val).some /\ DnaValue(value.val).v.t = "str"
    THEN Ok([content |-> value.val, dna |-> DnaValue(value.val).v.s])
    ELSE Err("DOBContentUnexpected", NoContent)

\* 337-342: the content and DNA of a payload of raw bytes
HexContent(dna) == Ok([content |-> JStr(dna), dna |-> dna])

decode_spore_data(spore_data) ==
    IF Len(spore_data) = 0 THEN Panic(NoContent)   \* spore_data[0]
    ELSE IF spore_data[1] = 0 THEN HexContent(HexEncode(Tail(spore_data)))
    ELSE JsonContent(FromJsonSlice(spore_data))

(***************************************************************************)
(* The world of one run: the settings (read-only after DOBDecoder::new),   *)
(* the ledger behind the RPC client and the executor.  The ledger does not *)
(* change during a run.                                                    *)
(***************************************************************************)

\* a 32-byte value whose last byte is k
Id(k) == [i \in 1..IdBytes |-> IF i = IdBytes THEN k ELSE 0]
SporeId(n) == Id(160 + n)
ClusterId(n) == Id(192 + n)
TypeIdArgs(n) == Id(224 + n)

RECURSIVE SumBytes(_)
SumBytes(b) == IF b = <<>> THEN 0 ELSE Head(b) + SumBytes(Tail(b))

\* ckb_hash::blake2b_256, as far as the model needs it: a 32-byte value
\* fixed by the content, different for the contents of this world
blake2b_256(content) ==
    [i \in 1..IdBytes |->
        IF i = 1 THEN (Len(content) + 1) % 256
        ELSE IF i = IdBytes THEN SumBytes(content) % 256 ELSE 0]

\* decoder binaries, told apart by what the executor does with them
BinJson == <<1>>
BinText == <<2>>
BinExit == <<3>>
BinSilent == <<4>>
BinBroken == <<5>>
BinOther == <<6>>
BinUndeployed == <<7>>

\* crate::vm::execute_riscv_binary(path, [dna, pattern]) on the content of
\* the file at path: Err, or (exit_code, outputs)
NoRun == [exit_code |-> 0, outputs |-> <<>>]
execute_riscv_binary(binary, dna, pattern) ==
    CASE binary = BinJson ->
           Ok([exit_code |-> 0,
               outputs |-> <<ToJsonString(JArr(<<JStr(dna), JStr(pattern)>>)),
                             <<"e", "n", "d">>>>])
      [] binary = BinText ->
           Ok([exit_code |-> 0, outputs |-> << <<"x">> \o dna >>])
      [] binary = BinExit ->
           Ok([exit_code |-> 1, outputs |-> << <<"[", "]">> >>])
      [] binary = BinSilent -> Ok([exit_code |-> 0, outputs |-> <<>>])
      [] OTHER -> Err("InvalidBinary", NoRun)

\* settings.protocol_versions
protocol_versions == << <<"d", "o", "b", "/", "0">> >>
\* settings.available_spores and settings.available_clusters: the script
\* templates, in the order they are tried
available_spores == <<"spore_v1", "spore_v2">>
available_clusters == <<"cluster_v1", "cluster_v2">>
TYPE_ID_CODE_HASH == "type_id"

\* settings.onchain_decoder_deployment
onchain_decoder_deployment ==
    <<[code_hash |-> blake2b_256(BinJson), tx_hash |-> "tx_json", out_index |-> 0],
      [code_hash |-> blake2b_256(BinOther), tx_hash |-> "tx_swapped", out_index |-> 0],
      [code_hash |-> blake2b_256(BinText), tx_hash |-> "tx_text", out_index |-> 0],
      [code_hash |-> blake2b_256(BinExit), tx_hash |-> "tx_exit", out_index |-> 0],
      [code_hash |-> blake2b_256(BinSilent), tx_hash |-> "tx_silent", out_index |-> 0],
      [code_hash |-> blake2b_256(BinBroken), tx_hash |-> "tx_broken", out_index |-> 0]>>

\* get_live_cell(out_point, with_data = true): the cell, if it is live, and
\* its data
LiveCell(tx_hash, out_index) ==
    CASE tx_hash = "tx_json" /\ out_index = 0 -> [cell |-> TRUE, data |-> TRUE, content |-> BinJson]
      \* the cell deployed for BinOther's hash holds another binary
      [] tx_hash = "tx_swapped" /\ out_index = 0 -> [cell |-> TRUE, data |-> TRUE, content |-> BinUndeployed]
      [] tx_hash = "tx_text" /\ out_index = 0 -> [cell |-> TRUE, data |-> TRUE, content |-> BinText]
      [] tx_hash = "tx_exit" /\ out_index = 0 -> [cell |-> TRUE, data |-> TRUE, content |-> BinExit]
      [] tx_hash = "tx_silent" /\ out_index = 0 -> [cell |-> TRUE, data |-> TRUE, content |-> BinSilent]
      [] tx_hash = "tx_broken" /\ out_index = 0 -> [cell |-> TRUE, data |-> TRUE, content |-> BinBroken]
      [] OTHER -> [cell |-> FALSE, data |-> FALSE, content |-> <<>>]

Version0 == <<"d", "o", "b", "/", "0">>
Some(v) == [some |-> TRUE, val |-> v]
None(v) == [some |-> FALSE, val |-> v]

\* the output data of a spore cell: content type, content, cluster id
SporeData(content_type, content, cluster_id) ==
    [fmt |-> "spore", content_type |-> content_type, content |-> content,
     cluster_id |-> cluster_id]
\* the output data of a cluster cell whose description is this metadata
ClusterData(location, hash, pattern) ==
    [fmt |-> "cluster", json |-> TRUE,
     dob |-> [decoder |-> [location |-> location, hash |-> hash], pattern |-> pattern]]
RawData(bytes) == [fmt |-> "bytes", bytes |-> bytes]

Cell(code_hash, args, output_data) ==
    [code_hash |-> code_hash, args |-> args, output_data |-> output_data]

\* the live cells the indexer knows, in the order it returns them
LedgerCells ==
    <<  \* spores 1 and 2: one cluster, a CodeHash decoder that is deployed
      Cell("spore_v1", SporeId(1), SporeData(Version0, <<0, 171>>, Some(ClusterId(1)))),
      Cell("spore_v2", SporeId(2),
           SporeData(Version0 \o <<";", "x">>, Bytes(<<QUOTE, "c", "d", QUOTE>>), Some(ClusterId(1)))),
      \* spore 3: a TypeId decoder, the pattern a JSON array
      \* (a cell under the second template has its id too, and other DNA)
      Cell("spore_v1", SporeId(3), SporeData(Version0, <<0, 3>>, Some(ClusterId(2)))),
      Cell("spore_v2", SporeId(3), SporeData(Version0, <<0, 51>>, Some(ClusterId(2)))),
      \* spore 4: a CodeHash decoder whose deployed cell holds other bytes
      Cell("spore_v1", SporeId(4), SporeData(Version0, <<0, 4>>, Some(ClusterId(3)))),
      \* spore 5 is in no cell; spore 6: the decoder prints a line that is no JSON
      Cell("spore_v1", SporeId(6), SporeData(Version0, <<0, 6>>, Some(ClusterId(4)))),
      \* spore 7: its cluster is in no cell
      Cell("spore_v1", SporeId(7), SporeData(Version0, <<0, 7>>, Some(ClusterId(5)))),
      \* spore 8: the cluster under the second template, a TypeId decoder
      \* whose hash is the CodeHash of cluster 1
      Cell("spore_v2", SporeId(8), SporeData(Version0, <<0, 8>>, Some(ClusterId(6)))),
      \* spores 9, 10, 11: decoders that exit with 1 after printing a line,
      \* that print nothing, and that the executor cannot run
      Cell("spore_v1", SporeId(9), SporeData(Version0, <<0, 9>>, Some(ClusterId(7)))),
      Cell("spore_v1", SporeId(10), SporeData(Version0, <<0, 10>>, Some(ClusterId(8)))),
      Cell("spore_v1", SporeId(11), SporeData(Version0, <<0, 11>>, Some(ClusterId(9)))),
      \* spore 12: a content type of another protocol version; spore 13: no
      \* cluster id
      Cell("spore_v1", SporeId(12),
           SporeData(<<"d", "o", "b", "/", "1">>, <<0, 12>>, Some(ClusterId(1)))),
      Cell("spore_v1", SporeId(13), SporeData(Version0, <<0, 13>>, None(NoId))),
      \* spore 14: a CodeHash decoder that is in no deployment; spore 15: a
      \* TypeId decoder that is in no type-id cell
      Cell("spore_v1", SporeId(14), SporeData(Version0, <<0, 14>>, Some(ClusterId(10)))),
      Cell("spore_v1", SporeId(15), SporeData(Version0, <<0, 15>>, Some(ClusterId(11)))),
      Cell("cluster_v1", ClusterId(1), ClusterData("CodeHash", blake2b_256(BinJson), JStr(<<"p">>))),
      Cell("cluster_v1", ClusterId(2),
           ClusterData("TypeId", TypeIdArgs(1), JArr(<<JStr(<<"p">>), JNum(1)>>))),
      Cell("cluster_v1", ClusterId(3), ClusterData("CodeHash", blake2b_256(BinOther), JStr(<<"p">>))),
      Cell("cluster_v1", ClusterId(4), ClusterData("CodeHash", blake2b_256(BinText), JStr(<<"p">>))),
      Cell("cluster_v2", ClusterId(6), ClusterData("TypeId", blake2b_256(BinJson), JStr(<<"p">>))),
      Cell("cluster_v1", ClusterId(7), ClusterData("CodeHash", blake2b_256(BinExit), JStr(<<"p">>))),
      Cell("cluster_v1", ClusterId(8), ClusterData("CodeHash", blake2b_256(BinSilent), JStr(<<"p">>))),
      Cell("cluster_v1", ClusterId(9), ClusterData("CodeHash", blake2b_256(BinBroken), JStr(<<"p">>))),
      Cell("cluster_v1", ClusterId(10),
           ClusterData("CodeHash", blake2b_256(BinUndeployed), JStr(<<"p">>))),
      Cell("cluster_v1", ClusterId(11), ClusterData("TypeId", TypeIdArgs(2), JStr(<<"p">>))),
      Cell(TYPE_ID_CODE_HASH, TypeIdArgs(1), RawData(BinJson)),
      Cell(TYPE_ID_CODE_HASH, blake2b_256(BinJson), RawData(BinText))
    >>

\* get_cells(search_key, Asc, limit 1): the first cell whose type script is
\* exactly (code_hash, args)
get_cells(code_hash, args) ==
    LET hits == SelectSeq(LedgerCells,
                          LAMBDA c : c.code_hash = code_hash /\ c.args = args)
    IN SubSeq(hits, 1, IF Len(hits) >= 1 THEN 1 ELSE 0)

(***************************************************************************)
(* The record decoding of fetch_dob_content and fetch_dob_metadata, after  *)
(* a cell was found                                                        *)
(***************************************************************************)

NoSpore == [content |-> JNull, dna |-> <<>>, cluster_id |-> NoId]
InvalidUtf8 == <<"<no UTF-8>">>

\* decoder.rs 207-212: the decoded content together with the cluster id
SporeOf(dob_content, cluster_id) ==
    IF dob_content.st = "err" THEN Err(dob_content.err, NoSpore)
    ELSE IF dob_content.st = "panic" THEN Panic(NoSpore)
    ELSE IF Len(cluster_id) # IdBytes THEN Panic(NoSpore)  \* try_into().unwrap()
    ELSE Ok([content |-> dob_content.val.content, dna |-> dob_content.val.dna,
             cluster_id |-> cluster_id])

\* (a record decoding that checks neither the content type nor the
\* cluster id: the fault a spore of another protocol version would show)
SporeRecordUnchecked(cell) ==
    SporeOf(decode_spore_data(cell.output_data.content), cell.output_data.cluster_id.val)

\* decoder.rs 192-212
SporeRecord(cell) ==
    LET data == cell.output_data IN
    IF data.fmt # "spore" THEN Err("SporeDataUncompatible", NoSpore)
    ELSE IF data.content_type = InvalidUtf8
    THEN Err("SporeDataContentTypeUncompatible", NoSpore)
    ELSE IF ~\E i \in 1..Len(protocol_versions) :
                HasPrefix(data.content_type, protocol_versions[i])
    THEN Err("DOBVersionUnexpected", NoSpore)
    ELSE IF ~data.cluster_id.some THEN Err("ClusterIdNotSet", NoSpore)
    ELSE SporeOf(decode_spore_data(data.content), data.cluster_id.val)

NoDob == [decoder |-> [location |-> "CodeHash", hash |-> NoId], pattern |-> JNull]

\* decoder.rs 239-245
ClusterRecord(cell) ==
    LET data == cell.output_data IN
    IF data.fmt # "cluster" THEN Err("ClusterDataUncompatible", NoDob)
    ELSE IF ~data.json THEN Err("DOBMetadataUnexpected", NoDob)
    ELSE Ok(data.dob)

\* decoder.rs 108-111: the pattern as the text handed to the decoder
PatternText(pattern) ==
    IF pattern.t = "str" THEN pattern.s ELSE ToJsonString(pattern)

\* (an adapter that looks at the output before the exit code: the fault a
\* decoder that prints and then exits with an error would show)
RenderResultOutputFirst(run) ==
    IF run.st # "ok" THEN Err("DecoderExecutionError", <<>>)
    ELSE IF run.val.outputs = <<>> THEN Err("DecoderOutputInvalid", <<>>)
    ELSE Ok(run.val.outputs[1])

\* decoder.rs 112-129: the executor's outcome as decode_dna's result
RenderResult(run) ==
    IF run.st # "ok" THEN Err("DecoderExecutionError", <<>>)
    ELSE IF run.val.exit_code # 0 THEN Err("DecoderExecutionInternalError", <<>>)
    ELSE IF run.val.outputs = <<>> THEN Err("DecoderOutputInvalid", <<>>)
    ELSE Ok(run.val.outputs[1])

NoResult == [render_output |-> JNull, dob_content |-> JNull]

\* server.rs 108-116: the result decode_dob returns; the render output is
\* parsed as JSON and the parse is unwrapped
Unwrapped(parsed, dob_content) ==
    IF parsed.ok THEN Ok([render_output |-> parsed.val, dob_content |-> dob_content])
    ELSE Panic(NoResult)
ServerDecodeResult(render_output, dob_content) ==
    Unwrapped(FromJsonStr(render_output), dob_content)

\* (a lookup that takes the first deployment whatever its code_hash: the
\* fault a decoder that is in no deployment would show)
FirstDeployment(hash) == 1

\* decoder.rs 64-76: the first deployment whose code_hash is the hash
FindDeployment(hash) ==
    LET hits == {i \in 1..Len(onchain_decoder_deployment) :
                    onchain_decoder_deployment[i].code_hash = hash}
    IN IF hits = {} THEN 0 ELSE CHOOSE i \in hits : \A j \in hits : i <= j

(***************************************************************************)
(* fetch_decode_ingredients (decoder.rs 40-47, 169-246).  Each function    *)
(* returns its Result together with the ledger calls it made; `answered`   *)
(* is the number of calls the RPC client gets answered before one fails.   *)
(***************************************************************************)


\* the most ledger calls one decode_dob makes before decode_dna
MaxRpc == Len(available_spores) + Len(available_clusters)

Ev(op, arg) == [op |-> op, arg |-> arg]
NoCell == <<>>

\* (a loop that does not break at the first template that has a cell: the
\* fault the order of the ledger calls would show)
RECURSIVE SearchEveryTemplate(_, _, _, _)
SearchEveryTemplate(templates, type_args, i, answered) ==
    IF i > Len(templates) THEN [st |-> "none", cell |-> NoCell, log |-> <<>>]
    ELSE IF answered = 0
    THEN [st |-> "failed", cell |-> NoCell, log |-> <<Ev("get_cells", templates[i])>>]
    ELSE LET cells == get_cells(templates[i], type_args)
             rest == SearchEveryTemplate(templates, type_args, i + 1, answered - 1)
         IN [st |-> IF cells # <<>> THEN "found" ELSE rest.st,
             cell |-> IF cells # <<>> THEN cells ELSE rest.cell,
             log |-> <<Ev("get_cells", templates[i])>> \o rest.log]

\* (a loop that asks a template again when the RPC client fails: the fault
\* a retried ledger call would show)
RECURSIVE SearchTemplatesRetrying(_, _, _, _)
SearchTemplatesRetrying(templates, type_args, i, answered) ==
    IF i > Len(templates) THEN [st |-> "none", cell |-> NoCell, log |-> <<>>]
    ELSE IF answered = 0
    THEN [SearchTemplatesRetrying(templates, type_args, i, 1) EXCEPT
            !.log = <<Ev("get_cells", templates[i])>> \o @]
    ELSE LET cells == get_cells(templates[i], type_args) IN
         IF cells # <<>>
         THEN [st |-> "found", cell |-> cells, log |-> <<Ev("get_cells", templates[i])>>]
         ELSE LET rest == SearchTemplatesRetrying(templates, type_args, i + 1, answered - 1)
              IN [rest EXCEPT !.log = <<Ev("get_cells", templates[i])>> \o @]

\* 173-188 and 220-235: the loop over the templates, from the i-th on: the
\* first cell of the first template that has one
RECURSIVE SearchTemplates(_, _, _, _)
SearchTemplates(templates, type_args, i, answered) ==
    IF i > Len(templates) THEN [st |-> "none", cell |-> NoCell, log |-> <<>>]
    ELSE IF answered = 0
    THEN [st |-> "failed", cell |-> NoCell, log |-> <<Ev("get_cells", templates[i])>>]
    ELSE LET cells == get_cells(templates[i], type_args) IN
         IF cells # <<>>
         THEN [st |-> "found", cell |-> cells, log |-> <<Ev("get_cells", templates[i])>>]
         ELSE LET rest == SearchTemplates(templates, type_args, i + 1, answered - 1)
              IN [rest EXCEPT !.log = <<Ev("get_cells", templates[i])>> \o @]

\* (a caller that takes a failed search for a search that found nothing:
\* the fault a ledger failure reported as absence would show)
SporeFoundConflated(found) ==
    [(IF found.st \in {"failed", "none"} THEN Err("SporeIdNotFound", NoSpore)
      ELSE SporeRecord(found.cell[1])) EXCEPT !.log = found.log]

\* 184-213: what the search for the spore cell comes to
SporeFound(found) ==
    [(IF found.st = "failed" THEN Err("FetchLiveCellsError", NoSpore)
      ELSE IF found.st = "none" THEN Err("SporeIdNotFound", NoSpore)
      ELSE SporeRecord(found.cell[1])) EXCEPT !.log = found.log]

\* 169-213
fetch_dob_content(spore_id, answered) ==
    SporeFound(SearchTemplates(available_spores, spore_id, 1, answered))

\* 231-246: what the search for the cluster cell comes to
ClusterFound(found) ==
    [(IF found.st = "failed" THEN Err("FetchLiveCellsError", NoDob)
      ELSE IF found.st = "none" THEN Err("ClusterIdNotFound", NoDob)
      ELSE ClusterRecord(found.cell[1])) EXCEPT !.log = found.log]

\* 216-246
fetch_dob_metadata(cluster_id, answered) ==
    ClusterFound(SearchTemplates(available_clusters, cluster_id, 1, answered))

NoIngredients == [content |-> JNull, dna |-> <<>>, dob |-> NoDob]

\* 45-46: the spore's content and DNA with the cluster's metadata
Ingredients(content, dob_metadata) ==
    IF dob_metadata.st # "ok"
    THEN [st |-> dob_metadata.st, err |-> dob_metadata.err, val |-> NoIngredients,
          log |-> content.log \o dob_metadata.log]
    ELSE [st |-> "ok", err |-> "",
          val |-> [content |-> content.val.content, dna |-> content.val.dna,
                   dob |-> dob_metadata.val],
          log |-> content.log \o dob_metadata.log]

\* 44-46: `?` returns the error of fetch_dob_content; the metadata is
\* fetched for the cluster the spore names
WithMetadata(content, answered) ==
    IF content.st # "ok"
    THEN [st |-> content.st, err |-> content.err, val |-> NoIngredients,
          log |-> content.log]
    ELSE Ingredients(content, fetch_dob_metadata(content.val.cluster_id,
                                                 answered - Len(content.log)))

\* 40-47
fetch_decode_ingredients(spore_id, answered) ==
    WithMetadata(fetch_dob_content(spore_id, answered), answered)

(***************************************************************************)
(* The arguments of the requests of a run                                  *)
(***************************************************************************)

\* how many decode_dob requests a run makes
NReq == 2

\* how many dob_batch_decode calls a run makes
MaxBatch == 1

H(n, form) == [sp |-> n, form |-> form]

\* the hexed_spore_id a request is called with: the id of spore h.sp,
\* spelled in one of these forms
InputText(h) ==
    LET hex == HexEncode(SporeId(h.sp)) IN
    CASE h.form = "hex" -> hex
      [] h.form = "0x" -> <<"0", "x">> \o hex
      [] h.form = "upper" -> [i \in 1..Len(hex) |-> HexUpper[HexVal(hex[i]) + 1]]
      [] h.form = "odd" -> SubSeq(hex, 1, Len(hex) - 1)
      [] h.form = "short" -> SubSeq(hex, 1, Len(hex) - 2)
      [] h.form = "long" -> hex \o <<"0", "0">>
      [] h.form = "badchar" -> <<"g">> \o Tail(hex)
      [] h.form = "short_badchar" -> <<"g">> \o SubSeq(hex, 2, Len(hex) - 2)
      [] h.form = "empty" -> <<>>
      [] h.form = "0x0x" -> <<"0", "x", "0", "x">> \o hex

Put(f, path, v) == [p \in DOMAIN f \cup {path} |-> IF p = path THEN v ELSE f[p]]
NoFiles == [p \in {} |-> <<>>]

\* a run: the method its calls use (dob_decode or dob_batch_decode), the
\* identifiers they are called with, and the render cache directory the
\* process starts with (empty, or left by an earlier process or changed by
\* hand)
Run(api, hs, cache) == [api |-> api, inputs |-> hs, dobs |-> cache]
Runs ==
    << Run("decode", <<H(1, "hex"), H(1, "0x")>>, NoFiles),
      Run("decode", <<H(1, "hex"), H(2, "hex"), H(3, "hex")>>, NoFiles),
      Run("decode", <<H(1, "hex"), H(1, "odd"), H(1, "short"), H(1, "long"), H(1, "badchar"),
                     H(1, "short_badchar"), H(1, "empty"), H(1, "0x0x"), H(1, "upper")>>, NoFiles),
      Run("batch", <<H(1, "hex"), H(4, "hex")>>, NoFiles),
      Run("batch", <<H(1, "hex"), H(6, "hex")>>, NoFiles),
      Run("decode", <<H(5, "hex"), H(7, "hex"), H(8, "hex"), H(15, "hex")>>, NoFiles),
      Run("decode", <<H(9, "hex"), H(10, "hex"), H(11, "hex")>>, NoFiles),
      Run("decode", <<H(12, "hex"), H(13, "hex"), H(14, "hex")>>, NoFiles),
      \* a CodeHash decoder and a TypeId decoder of one hash
      Run("decode", <<H(1, "hex"), H(8, "hex")>>, NoFiles),
      \* an entry of one line and one whose second line is no JSON; a good
      \* one written by hand; one whose first line is no JSON
      Run("decode", <<H(1, "hex"), H(3, "hex")>>,
          Put(Put(NoFiles, DobCachePath(SporeId(1)), <<"[", "]">>),
              DobCachePath(SporeId(3)), <<"[", "]", NL, "{">>)),
      Run("decode", <<H(1, "hex"), H(3, "hex")>>,
          Put(NoFiles, DobCachePath(SporeId(1)),
              <<"[", "1", "]", NL, " ", QUOTE, "a", "b", QUOTE, NL, "x">>)),
      Run("batch", <<H(1, "hex"), H(3, "hex")>>,
          Put(NoFiles, DobCachePath(SporeId(1)), <<"x", NL, QUOTE, "a", "b", QUOTE>>)) >>

(***************************************************************************)
(* State                                                                   *)
(***************************************************************************)

VARIABLES
    api,        \* the method this run's calls use
    inputs,     \* the identifiers this run's requests are called with
    dobs,       \* the render cache directory: file name -> content
    decoders,   \* the decoder cache directory: file name -> content
    calls,      \* the RPC calls made so far: dob_decode and dob_batch_decode
    req,        \* the decode_dob requests: position, locals, result, I/O log
    faults      \* how many ledger calls and file creations have failed

vars == <<api, inputs, dobs, decoders, calls, req, faults>>

\* how many ledger calls and file creations fail in a run, at most
MaxFaults == 1

\* the errors of a failed ledger call and of a failed file creation
FaultErrors == {"FetchLiveCellsError", "FetchTransactionError",
                "DecoderBinaryPathInvalid", "DOBRenderCacheNotFound"}

\* how many ledger calls the RPC client gets answered before one fails
RpcAnswers == IF faults < MaxFaults THEN 0..MaxRpc ELSE {MaxRpc}
\* whether the RPC client's request is answered
RpcOutcomes == IF faults < MaxFaults THEN {TRUE, FALSE} ELSE {TRUE}
\* whether the file system lets fs::write create (or truncate) the file
FsOutcomes == IF faults < MaxFaults THEN {TRUE, FALSE} ELSE {TRUE}

NoOutcome == [st |-> "none", err |-> "", val |-> NoResult, log |-> <<>>]

\* a decode_dob future as created, not yet polled
NewRequest(call, h) ==
    [call |-> call, hexed |-> h, pc |-> "start", cache_path |-> "",
     file_content |-> <<>>, content |-> JNull, dna |-> <<>>, dob |-> NoDob,
     decoder_path |-> "", decoder_file_content |-> <<>>, render_output |-> <<>>,
     result |-> NoOutcome, log |-> <<>>]

Ended == {"done", "panicked", "cancelled"}

\* positions from which a request goes on without waiting for the ledger:
\* within one call (one task polling its futures) no other request of the
\* call runs in between
MidPoll == {"read_dob_from_cache", "write_decoder_data", "execute", "write_dob",
            "write_dob_data"}

\* join_all polls the futures of a batch in order, one at a time; requests
\* of different calls run on different tasks and interleave freely
CanRun(r) ==
    \A q \in DOMAIN req \ {r} :
        req[q].call = req[r].call =>
            /\ req[q].pc \notin MidPoll
            /\ (req[r].pc = "start" /\ q < r) => req[q].pc # "start"

Fail(rq, e) == [rq EXCEPT !.pc = "done", !.result = Err(e, NoResult)]
Finish(rq, res) ==
    [rq EXCEPT !.pc = IF res.st = "panic" THEN "panicked" ELSE "done", !.result = res]
Logged(rq, op, arg) == [rq EXCEPT !.log = Append(@, Ev(op, arg))]

\* the results of a call's requests, in the order of its arguments
\* (futures::future::join_all)
JoinAll(rs, rq) == [i \in 1..Len(rs) |-> rq[rs[i]].result]

\* request r moves to n.  A panic unwinds the call's task, which drops the
\* call's other futures where they wait; the call returns in the poll in
\* which the last of its futures returns
Step(r, n) ==
    LET rq == [q \in DOMAIN req |->
                 IF q = r THEN n
                 ELSE IF n.pc = "panicked" /\ req[q].call = n.call
                         /\ req[q].pc \notin Ended
                      THEN [req[q] EXCEPT !.pc = "cancelled"]
                      ELSE req[q]]
        c == n.call
    IN /\ req' = rq
       /\ calls' = IF n.pc = "panicked"
                   THEN [calls EXCEPT ![c].status = "panicked"]
                   ELSE IF \A i \in 1..Len(calls[c].reqs) : rq[calls[c].reqs[i]].pc = "done"
                   THEN [calls EXCEPT ![c].status = "returned",
                                      ![c].results = JoinAll(calls[c].reqs, rq)]
                   ELSE calls
       /\ faults' = IF n.pc = "done" /\ n.result.err \in FaultErrors
                    THEN faults + 1 ELSE faults

Init ==
    /\ \E i \in DOMAIN Runs :
         api = Runs[i].api /\ inputs = Runs[i].inputs /\ dobs = Runs[i].dobs
    /\ decoders = NoFiles
    /\ calls = <<>>
    /\ req = <<>>
    /\ faults = 0

(***************************************************************************)
(* The RPC calls (server.rs 50-66, 119-128)                                *)
(***************************************************************************)

NewCall(kind, rs) ==
    [kind |-> kind, reqs |-> rs, results |-> <<>>,
     status |-> IF rs = <<>> THEN "returned" ELSE "running"]

\* A call that has been made and not yet polled has read and written
\* nothing, so a call made later is a call made at once and polled later:
\* the calls of a run are made before the first request is polled.
NonePolled == \A q \in DOMAIN req : req[q].pc = "start"

\* the place of an identifier among the run's inputs
Rank(h) == CHOOSE i \in DOMAIN inputs : inputs[i] = h

\* dob_decode(hexed_spore_id): one decode_dob.  Each call runs on a task
\* of its own, so the order the calls are made in shows to nobody: they are
\* numbered in the order of their inputs.
Decode(h) ==
    /\ api = "decode"
    /\ Len(req) < NReq
    /\ NonePolled
    /\ req # <<>> => Rank(req[Len(req)].hexed) <= Rank(h)
    /\ calls' = Append(calls, NewCall("decode", <<Len(req) + 1>>))
    /\ req' = Append(req, NewRequest(Len(calls) + 1, h))
    /\ UNCHANGED <<api, inputs, dobs, decoders, faults>>

\* dob_batch_decode(hexed_spore_ids): one decode_dob per entry, joined
BatchDecode(hs) ==
    /\ api = "batch"
    /\ Len(calls) < MaxBatch
    /\ Len(req) + Len(hs) <= NReq
    /\ NonePolled
    /\ calls' = Append(calls, NewCall("batch", [i \in 1..Len(hs) |-> Len(req) + i]))
    /\ req' = req \o [i \in 1..Len(hs) |-> NewRequest(Len(calls) + 1, hs[i])]
    /\ UNCHANGED <<api, inputs, dobs, decoders, faults>>

(***************************************************************************)
(* decode_dob (server.rs 69-117)                                           *)
(***************************************************************************)

\* what the file system answers when asked whether a path exists, as the
\* event of a request's log
Exists(path, files) == IF path \in DOMAIN files THEN "exists" ELSE "missing"

\* (a lookup that never finds the cache file: the fault a cache hit's
\* missing ledger calls would show)
CachePathIgnored(cache_path, files) == FALSE

\* 83: cache_path.exists()
CachePathExists(cache_path, files) == cache_path \in DOMAIN files

\* 84-87: `?` returns the error of fetch_decode_ingredients; a panic
\* unwinds; the ingredients are kept for decode_dna
Fetched(rq, got) ==
    LET fetched == [rq EXCEPT !.log = @ \o got.log] IN
    IF got.st = "err" THEN Fail(fetched, got.err)
    ELSE IF got.st = "panic" THEN Finish(fetched, Panic(NoResult))
    ELSE [fetched EXCEPT !.content = got.val.content, !.dna = got.val.dna,
                         !.dob = got.val.dob, !.pc = "decode_dna"]

\* 73-86: the identifier is parsed, then the cache file is looked for; if
\* there is none, fetch_decode_ingredients reads the ledger.  (The ledger
\* does not change, so its reads are not steps of their own: no other
\* request can tell when they happen.)
decode_dob(r) ==
    /\ req[r].pc = "start"
    /\ CanRun(r)
    /\ LET spore_id == ParseSporeId(InputText(req[r].hexed))
           cache_path == DobCachePath(spore_id.val)
           rq == [Logged(req[r], Exists(cache_path, dobs), cache_path) EXCEPT
                    !.cache_path = cache_path]
       IN IF spore_id.st = "err" THEN Step(r, Fail(req[r], spore_id.err))
          ELSE IF CachePathExists(cache_path, dobs)
          THEN Step(r, [rq EXCEPT !.pc = "read_dob_from_cache"])
          ELSE \E answered \in RpcAnswers :
                 Step(r, Fetched(rq, fetch_decode_ingredients(spore_id.val, answered)))
    /\ UNCHANGED <<api, inputs, dobs, decoders>>

\* 84, 108-116: `?` returns the error of read_dob_from_cache; an entry
\* that was read is returned
Served(rq, entry) ==
    IF entry.st = "err" THEN Fail(rq, entry.err)
    ELSE Finish(rq, ServerDecodeResult(entry.val.render_output, entry.val.dob_content))

\* 84, 108-116: the entry is read and returned
read_dob_from_cache(r) ==
    /\ req[r].pc = "read_dob_from_cache"
    /\ CanRun(r)
    /\ Step(r, Served([Logged(req[r], "read", req[r].cache_path) EXCEPT
                         !.file_content = dobs[req[r].cache_path]],
                      ReadDobFromCache(dobs[req[r].cache_path])))
    /\ UNCHANGED <<api, inputs, dobs, decoders>>

(***************************************************************************)
(* decode_dna (decoder.rs 50-130)                                          *)
(***************************************************************************)

\* (a comparison that accepts any content: the fault a rejected binary
\* would show)
AnyContentMatches(decoder_file_content, hash) == TRUE

\* 81-83: whether the fetched content is the binary the metadata names
HashMatches(decoder_file_content, hash) == blake2b_256(decoder_file_content) = hash

NoBinary == <<>>

\* 268-285: the deployed cell's data, read by its out point
fetch_decoder_binary_directly(tx_hash, out_index, answered) ==
    LET decoder_cell == LiveCell(tx_hash, out_index)
        log == <<Ev("get_live_cell", tx_hash)>>
    IN IF ~answered THEN [Err("FetchTransactionError", NoBinary) EXCEPT !.log = log]
       ELSE IF ~decoder_cell.cell
       THEN [Err("NoOutputCellInTransaction", NoBinary) EXCEPT !.log = log]
       ELSE IF ~decoder_cell.data
       THEN [Err("DecoderBinaryNotFoundInCell", NoBinary) EXCEPT !.log = log]
       ELSE [Ok(decoder_cell.content) EXCEPT !.log = log]

\* (a fetch that checks the cell's data against the decoder id as if it
\* were a digest: the fault a type-id decoder would show)
fetch_decoder_binary_checked(decoder_id, answered) ==
    LET cells == get_cells(TYPE_ID_CODE_HASH, decoder_id)
        log == <<Ev("get_cells", TYPE_ID_CODE_HASH)>>
    IN IF ~answered THEN [Err("FetchLiveCellsError", NoBinary) EXCEPT !.log = log]
       ELSE IF cells = <<>> THEN [Err("DecoderIdNotFound", NoBinary) EXCEPT !.log = log]
       ELSE IF blake2b_256(cells[1].output_data.bytes) # decoder_id
       THEN [Err("DecoderBinaryHashInvalid", NoBinary) EXCEPT !.log = log]
       ELSE [Ok(cells[1].output_data.bytes) EXCEPT !.log = log]

\* 249-265: the data of the type-id cell whose args are the decoder id
fetch_decoder_binary(decoder_id, answered) ==
    LET cells == get_cells(TYPE_ID_CODE_HASH, decoder_id)
        log == <<Ev("get_cells", TYPE_ID_CODE_HASH)>>
    IN IF ~answered THEN [Err("FetchLiveCellsError", NoBinary) EXCEPT !.log = log]
       ELSE IF cells = <<>> THEN [Err("DecoderIdNotFound", NoBinary) EXCEPT !.log = log]
       ELSE [Ok(cells[1].output_data.bytes) EXCEPT !.log = log]

\* 77-85: `?` returns the error of the fetch; the fetched content is
\* hashed and compared with the hash the metadata names
Checked(fetched, hash, decoder_path) ==
    IF fetched.st = "err" THEN fetched
    ELSE IF ~HashMatches(fetched.val, hash)
    THEN [Err("DecoderBinaryHashInvalid", NoBinary) EXCEPT
            !.log = fetched.log \o <<Ev("blake2b_256", decoder_path)>>]
    ELSE [fetched EXCEPT !.log = @ \o <<Ev("blake2b_256", decoder_path)>>]

\* 62-85, 98-101: the binary of a decoder that is not cached: for CodeHash
\* from the deployment table and checked against the hash, for TypeId from
\* the type-id cell
ResolveDecoder(decoder, decoder_path, answered) ==
    IF decoder.location = "CodeHash"
    THEN IF FindDeployment(decoder.hash) = 0
         THEN [Err("NativeDecoderNotFound", NoBinary) EXCEPT !.log = <<>>]
         ELSE Checked(fetch_decoder_binary_directly(
                          onchain_decoder_deployment[FindDeployment(decoder.hash)].tx_hash,
                          onchain_decoder_deployment[FindDeployment(decoder.hash)].out_index,
                          answered),
                      decoder.hash, decoder_path)
    ELSE fetch_decoder_binary(decoder.hash, answered)

\* (a lookup that never finds the decoder's file)
DecoderPathIgnored(decoder_path, files) == FALSE

\* 62, 98: decoder_path.exists()
DecoderPathExists(decoder_path, files) == decoder_path \in DOMAIN files

\* `?` returns the error; the binary is kept for the write
Resolved(rq, got) ==
    LET fetched == [rq EXCEPT !.log = @ \o got.log] IN
    IF got.st = "err" THEN Fail(fetched, got.err)
    ELSE [fetched EXCEPT !.decoder_file_content = got.val, !.pc = "write_decoder"]

\* 55-85, 92-101: the cache file is looked for; a decoder that is not
\* cached is fetched
decode_dna(r) ==
    /\ req[r].pc = "decode_dna"
    /\ CanRun(r)
    /\ LET decoder == req[r].dob.decoder
           decoder_path == DecoderPath(decoder.location, decoder.hash)
           rq == [Logged(req[r], Exists(decoder_path, decoders), decoder_path) EXCEPT
                    !.decoder_path = decoder_path]
       IN IF DecoderPathExists(decoder_path, decoders) THEN Step(r, [rq EXCEPT !.pc = "execute"])
          ELSE \E answered \in RpcOutcomes :
                 Step(r, Resolved(rq, ResolveDecoder(decoder, decoder_path, answered)))
    /\ UNCHANGED <<api, inputs, dobs, decoders>>

\* 87-88, 102-103: fs::write opens the file, which creates or empties it
write_decoder(r) ==
    /\ req[r].pc = "write_decoder"
    /\ CanRun(r)
    /\ \E created \in FsOutcomes :
         /\ Step(r, IF created
                    THEN [Logged(req[r], "create", req[r].decoder_path) EXCEPT
                            !.pc = "write_decoder_data"]
                    ELSE Fail(req[r], "DecoderBinaryPathInvalid"))
         /\ decoders' = IF created THEN Put(decoders, req[r].decoder_path, <<>>)
                        ELSE decoders
    /\ UNCHANGED <<api, inputs, dobs>>

\* ... and then writes the content
write_decoder_data(r) ==
    /\ req[r].pc = "write_decoder_data"
    /\ CanRun(r)
    /\ Step(r, [Logged(req[r], "write", req[r].decoder_path) EXCEPT !.pc = "execute"])
    /\ decoders' = Put(decoders, req[r].decoder_path, req[r].decoder_file_content)
    /\ UNCHANGED <<api, inputs, dobs>>

\* (a caller that goes on to the cache write whatever decode_dna returned:
\* the fault a write after a failed execution would show)
RenderedAnyway(rq, raw_render_result) ==
    [rq EXCEPT !.render_output = raw_render_result.val, !.pc = "write_dob"]

\* server.rs 87: `?` returns decode_dna's error; the render output is kept
Rendered(rq, raw_render_result) ==
    IF raw_render_result.st = "err" THEN Fail(rq, raw_render_result.err)
    ELSE [rq EXCEPT !.render_output = raw_render_result.val, !.pc = "write_dob"]

\* 108-129: the executor runs the file at decoder_path
execute(r) ==
    /\ req[r].pc = "execute"
    /\ CanRun(r)
    /\ Step(r, Rendered(Logged(req[r], "execute", req[r].decoder_path),
                        RenderResult(execute_riscv_binary(
                            decoders[req[r].decoder_path], req[r].dna,
                            PatternText(req[r].dob.pattern)))))
    /\ UNCHANGED <<api, inputs, dobs, decoders>>

(***************************************************************************)
(* decode_dob, after decode_dna (server.rs 88-117)                         *)
(***************************************************************************)

\* (a write that has emptied the cache file when it fails: the fault an
\* entry touched by a request that ended with an error would show)
write_dob_to_cache_truncating(r) ==
    /\ req[r].pc = "write_dob"
    /\ CanRun(r)
    /\ \E created \in FsOutcomes :
         /\ Step(r, IF created
                    THEN [Logged(req[r], "create", req[r].cache_path) EXCEPT
                            !.pc = "write_dob_data"]
                    ELSE Fail(req[r], "DOBRenderCacheNotFound"))
         /\ dobs' = Put(dobs, req[r].cache_path, <<>>)
    /\ UNCHANGED <<api, inputs, decoders>>

\* 88, 172: fs::write opens the cache file, which creates or empties it
write_dob_to_cache(r) ==
    /\ req[r].pc = "write_dob"
    /\ CanRun(r)
    /\ \E created \in FsOutcomes :
         /\ Step(r, IF created
                    THEN [Logged(req[r], "create", req[r].cache_path) EXCEPT
                            !.pc = "write_dob_data"]
                    ELSE Fail(req[r], "DOBRenderCacheNotFound"))
         /\ dobs' = IF created THEN Put(dobs, req[r].cache_path, <<>>) ELSE dobs
    /\ UNCHANGED <<api, inputs, decoders>>

\* ... and then writes the two lines; 108-116: the result is returned
write_dob_data(r) ==
    /\ req[r].pc = "write_dob_data"
    /\ CanRun(r)
    /\ Step(r, Finish(Logged(req[r], "write", req[r].cache_path),
                      ServerDecodeResult(req[r].render_output, req[r].content)))
    /\ dobs' = Put(dobs, req[r].cache_path,
                   DobFileContent(req[r].render_output, req[r].content))
    /\ UNCHANGED <<api, inputs, decoders>>

(***************************************************************************)
(* The specification                                                       *)
(***************************************************************************)

Next ==
    \/ \E i \in DOMAIN inputs : Decode(inputs[i])
    \/ /\ api = "batch" /\ Len(calls) < MaxBatch /\ NonePolled
       /\ \E n \in 0..(NReq - Len(req)) :
            \E hs \in [1..n -> {inputs[i] : i \in DOMAIN inputs}] : BatchDecode(hs)
    \/ \E r \in DOMAIN req : decode_dob(r)
    \/ \E r \in DOMAIN req : read_dob_from_cache(r)
    \/ \E r \in DOMAIN req : decode_dna(r)
    \/ \E r \in DOMAIN req : write_decoder(r)
    \/ \E r \in DOMAIN req : write_decoder_data(r)
    \/ \E r \in DOMAIN req : execute(r)
    \/ \E r \in DOMAIN req : write_dob_to_cache(r)
    \/ \E r \in DOMAIN req : write_dob_data(r)

Spec == Init /\ [][Next]_vars

(***************************************************************************)
(* The render cache's two functions on their own (server.rs 130-174): one  *)
(* write_dob_to_cache of a render output and a content, then one           *)
(* read_dob_from_cache of the file                                         *)
(***************************************************************************)

\* the longest render output written, and how deep the contents nest
MaxText == 2
MaxDepth == 1

\* the render outputs: the texts of up to n of these characters
TextChars == {"a", " ", QUOTE, NL}
RECURSIVE Texts(_)
Texts(n) ==
    IF n = 0 THEN {<<>>}
    ELSE Texts(n - 1) \cup
         {Append(t, c) : t \in {u \in Texts(n - 1) : Len(u) = n - 1}, c \in TextChars}

\* the contents: serde_json values nested up to d deep; objects hold their
\* keys in order
JsonStrings == {<<>>, <<"a">>, <<NL>>, <<QUOTE, BSLASH>>}
JsonKeys == {<<"a">>, <<NL, QUOTE>>}
JsonAtoms ==
    {JNull, JBool(TRUE), JBool(FALSE), JNum(0), JNum(12)}
    \cup {JStr(t) : t \in JsonStrings}
RECURSIVE JsonValues(_)
JsonValues(d) ==
    IF d = 0 THEN JsonAtoms
    ELSE JsonValues(d - 1)
         \cup {JArr(<<>>), JObj(<<>>)}
         \cup {JArr(<<v>>) : v \in JsonValues(d - 1)}
         \cup {JArr(<<JNum(1), v>>) : v \in JsonValues(d - 1)}
         \cup {JObj(<< <<k, v>> >>) : k \in JsonKeys, v \in JsonValues(d - 1)}
         \cup {JObj(<< <<<<"a">>, v>>, <<<<"b">>, JStr(<<NL>>)>> >>) :
                 v \in JsonValues(d - 1)}

InitCache ==
    /\ api = "cache"
    /\ inputs = <<>>
    /\ dobs = NoFiles
    /\ decoders = NoFiles
    /\ calls = <<>>
    /\ req = <<>>
    /\ faults = 0

\* 165-174, as one call: the file is created and written
WriteDobToCache(render_result, dob_content, cache_path) ==
    /\ api = "cache"
    /\ calls = <<>>
    /\ dobs' = Put(dobs, cache_path, DobFileContent(render_result, dob_content))
    /\ calls' = <<[kind |-> "write_dob_to_cache", render_result |-> render_result,
                   dob_content |-> dob_content, cache_path |-> cache_path]>>
    /\ UNCHANGED <<api, inputs, decoders, req, faults>>

\* 132-142, as one call: the file is read and taken apart
ReadDobFromCacheCall ==
    /\ api = "cache"
    /\ Len(calls) = 1
    /\ calls' = Append(calls, [kind |-> "read_dob_from_cache",
                               cache_path |-> calls[1].cache_path,
                               result |-> ReadDobFromCache(dobs[calls[1].cache_path])])
    /\ UNCHANGED <<api, inputs, dobs, decoders, req, faults>>

NextCache ==
    \/ \E render_result \in Texts(MaxText), dob_content \in JsonValues(MaxDepth) :
          WriteDobToCache(render_result, dob_content, DobCachePath(SporeId(1)))
    \/ ReadDobFromCacheCall

SpecCache == InitCache /\ [][NextCache]_vars

(***************************************************************************)
(* decode_spore_data on its own (decoder.rs 336-358): one call on a        *)
(* content payload                                                         *)
(***************************************************************************)

\* the longest payload of the bytes of PayloadBytes
MaxPayload == 3

\* a zero byte, the bytes of " 1 [ ] a, and a byte that is no ASCII
PayloadBytes == {0, 34, 49, 91, 93, 97, 255}
RECURSIVE ByteSeqs(_)
ByteSeqs(n) ==
    IF n = 0 THEN {<<>>}
    ELSE ByteSeqs(n - 1) \cup
         {Append(b, c) : b \in {u \in ByteSeqs(n - 1) : Len(u) = n - 1}, c \in PayloadBytes}

\* longer payloads: JSON texts of the shapes decode_spore_data tells apart
JsonPayloads ==
    {Bytes(<<"[", QUOTE, "a", "b", QUOTE, "]">>),
     Bytes(<<"[", QUOTE, "a", QUOTE, ",", "1", "]">>),
     Bytes(<<"[", "1", ",", QUOTE, "a", QUOTE, "]">>),
     Bytes(<<"[", "[", QUOTE, "a", QUOTE, "]", "]">>),
     Bytes(<<"[", "n", "u", "l", "l", "]">>),
     Bytes(<<"n", "u", "l", "l">>),
     Bytes(<<"{", "}">>),
     Bytes(<<"{", QUOTE, "d", "n", "a", QUOTE, ":", QUOTE, "a", "b", QUOTE, "}">>),
     Bytes(<<"{", QUOTE, "d", "n", "a", QUOTE, ":", "1", "}">>),
     Bytes(<<"{", QUOTE, "d", "n", "a", QUOTE, ":", "[", QUOTE, "a", QUOTE, "]", "}">>),
     Bytes(<<"{", QUOTE, "a", QUOTE, ":", QUOTE, "b", QUOTE, "}">>),
     Bytes(<<"{", QUOTE, "a", QUOTE, ":", "1", ",", QUOTE, "d", "n", "a", QUOTE, ":",
             QUOTE, "c", QUOTE, "}">>),
     Bytes(<<" ", QUOTE, "a", QUOTE, " ">>),
     Bytes(<<QUOTE, "a", QUOTE, "1">>),
     <<0, 171, 205, 0, 1>>}

Payloads == ByteSeqs(MaxPayload) \cup JsonPayloads

InitContent ==
    /\ api = "content"
    /\ inputs \in {<<spore_data>> : spore_data \in Payloads}
    /\ dobs = NoFiles
    /\ decoders = NoFiles
    /\ calls = <<>>
    /\ req = <<>>
    /\ faults = 0

\* 336-358, as one call
DecodeSporeData ==
    /\ api = "content"
    /\ calls = <<>>
    /\ calls' = <<[kind |-> "decode_spore_data", spore_data |-> inputs[1],
                   result |-> decode_spore_data(inputs[1])]>>
    /\ UNCHANGED <<api, inputs, dobs, decoders, req, faults>>

NextContent == DecodeSporeData

SpecContent == InitContent /\ [][NextContent]_vars

(***************************************************************************)
(* Properties                                                              *)
(***************************************************************************)

\* what a request has done, read off its log
Did(rq, ops) == \E i \in DOMAIN rq.log : rq.log[i].op \in ops
DidAt(rq, ops, path) ==
    \E i \in DOMAIN rq.log : rq.log[i].op \in ops /\ rq.log[i].arg = path
LedgerOps == {"get_cells", "get_live_cell"}

\* the bytes in the cell deployed for a CodeHash decoder
DeployedBytes(decoder) ==
    LiveCell(onchain_decoder_deployment[FindDeployment(decoder.hash)].tx_hash,
             onchain_decoder_deployment[FindDeployment(decoder.hash)].out_index).content

\* C1: a request for a CodeHash decoder that was not cached, which fetched
\* the deployed bytes and hashed them, and whose bytes' digest is not the
\* declared hash, has failed with DecoderBinaryHashInvalid; it has neither
\* created nor written a file, the file of that cache key does not exist,
\* and it has not run the executor.
C1_HashMismatchRejected ==
    \A r \in DOMAIN req :
        (/\ req[r].dob.decoder.location = "CodeHash"
         /\ DidAt(req[r], {"missing"}, req[r].decoder_path)
         /\ Did(req[r], {"blake2b_256"})
         /\ blake2b_256(DeployedBytes(req[r].dob.decoder)) # req[r].dob.decoder.hash)
        => /\ req[r].pc = "done"
           /\ req[r].result.st = "err"
           /\ req[r].result.err = "DecoderBinaryHashInvalid"
           /\ ~Did(req[r], {"create", "write", "execute"})
           /\ req[r].decoder_path \notin DOMAIN decoders

\* C1's case: a request has hashed the bytes of the swapped deployment and
\* failed
C1_Witness ==
    \E r \in DOMAIN req :
        /\ Did(req[r], {"get_live_cell"})
        /\ Did(req[r], {"blake2b_256"})
        /\ req[r].result.err = "DecoderBinaryHashInvalid"

\* C2: a request that found its render-cache entry existing has made no
\* ledger call and has not run the executor; what it returns is what the
\* two lines it read hold; and the entry of a request that succeeded exists
\* (so a later decode of the id finds it).
C2_CacheHitShortCircuits ==
    \A r \in DOMAIN req :
        /\ DidAt(req[r], {"exists"}, req[r].cache_path) =>
             /\ ~Did(req[r], LedgerOps \cup {"execute"})
             /\ req[r].result.st = "ok" =>
                  /\ Did(req[r], {"read"})
                  /\ req[r].result.val.render_output =
                        FromJsonStr(SplitNL(req[r].file_content, <<>>)[1]).val
                  /\ req[r].result.val.dob_content =
                        FromJsonStr(SplitNL(req[r].file_content, <<>>)[2]).val
        /\ req[r].result.st = "ok" => req[r].cache_path \in DOMAIN dobs

\* C2's case: a second decode of an id whose first decode wrote the entry
\* and succeeded has been served from the entry
C2_Witness ==
    \E r, q \in DOMAIN req :
        /\ r # q
        /\ req[q].result.st = "ok"
        /\ DidAt(req[q], {"write"}, req[q].cache_path)
        /\ req[r].cache_path = req[q].cache_path
        /\ DidAt(req[r], {"exists"}, req[r].cache_path)
        /\ req[r].result.st = "ok"

\* C3: a request that found its decoder's file existing has fetched no
\* binary, hashed nothing and written no decoder file; requests with the
\* same DecoderRef have the same path; what requests have written under one
\* path is the same content, and it is the file's content whenever no write
\* of the path is under way.
C3_DecoderCacheIdempotent ==
    /\ \A r \in DOMAIN req :
         DidAt(req[r], {"exists"}, req[r].decoder_path) =>
            /\ ~Did(req[r], {"get_live_cell", "blake2b_256"})
            /\ ~DidAt(req[r], {"get_cells"}, TYPE_ID_CODE_HASH)
            /\ ~DidAt(req[r], {"create", "write"}, req[r].decoder_path)
    /\ \A r, q \in DOMAIN req :
         /\ (/\ req[r].decoder_path # ""
             /\ req[q].decoder_path # ""
             /\ req[r].dob.decoder = req[q].dob.decoder)
            => req[r].decoder_path = req[q].decoder_path
         /\ (/\ DidAt(req[r], {"write"}, req[r].decoder_path)
             /\ DidAt(req[q], {"write"}, req[r].decoder_path))
            => req[r].decoder_file_content = req[q].decoder_file_content
         /\ (/\ DidAt(req[r], {"write"}, req[r].decoder_path)
             /\ \A w \in DOMAIN req :
                  ~(req[w].pc = "write_decoder_data"
                    /\ req[w].decoder_path = req[r].decoder_path))
            => decoders[req[r].decoder_path] = req[r].decoder_file_content

\* C3's case: after one request wrote a decoder's file, another with the
\* same DecoderRef found it and went on to succeed
C3_Witness ==
    \E r, q \in DOMAIN req :
        /\ r # q
        /\ DidAt(req[q], {"write"}, req[q].decoder_path)
        /\ req[r].dob.decoder = req[q].dob.decoder
        /\ DidAt(req[r], {"exists"}, req[r].decoder_path)
        /\ req[r].result.st = "ok"

\* C4, as the specification states it: no cache file, render entry or
\* decoder binary, is opened for writing by more than one request (an entry
\* is written at most once).
C4_WrittenAtMostOnce ==
    \A r, q \in DOMAIN req :
        \A i \in DOMAIN req[r].log, j \in DOMAIN req[q].log :
            (/\ req[r].log[i].op = "create"
             /\ req[q].log[j].op = "create"
             /\ req[r].log[i].arg = req[q].log[j].arg)
            => r = q

\* C5, as the specification states it: a batch call does not end without
\* returning; when it has returned it holds one result per identifier, in
\* the order of the identifiers, each the result of that identifier's
\* decode; and no decode of a batch is given up because another failed.
C5_BatchItemsIndependent ==
    \A c \in DOMAIN calls :
        calls[c].kind = "batch" =>
            /\ calls[c].status # "panicked"
            /\ \A i \in DOMAIN calls[c].reqs : req[calls[c].reqs[i]].pc # "cancelled"
            /\ calls[c].status = "returned" =>
                 /\ Len(calls[c].results) = Len(calls[c].reqs)
                 /\ \A i \in DOMAIN calls[c].reqs :
                      /\ calls[c].results[i] = req[calls[c].reqs[i]].result
                      /\ req[calls[c].reqs[i]].pc = "done"

\* the get_cells calls of a request on the templates of a list, in the
\* order it made them
Queried(rq, templates) ==
    SelectSeq(rq.log, LAMBDA e : /\ e.op = "get_cells"
                                 /\ \E i \in DOMAIN templates : templates[i] = e.arg)
NoCellIn(templates, type_args) ==
    \A i \in DOMAIN templates : get_cells(templates[i], type_args) = <<>>
\* the first cell of the first template of the list that has one
FirstCell(templates, type_args) ==
    get_cells(templates[CHOOSE i \in DOMAIN templates :
                          /\ get_cells(templates[i], type_args) # <<>>
                          /\ \A j \in 1..(i - 1) :
                               get_cells(templates[j], type_args) = <<>>],
              type_args)[1]

\* the templates are searched in the order of the list, none after the
\* first that has a cell, and the search ends not-found exactly when every
\* template was asked and none has a cell
SearchedInOrder(rq, templates, type_args, not_found) ==
    LET queried == Queried(rq, templates)
    IN  /\ Len(queried) <= Len(templates)
        /\ \A i \in DOMAIN queried :
             /\ queried[i].arg = templates[i]
             /\ i < Len(queried) => get_cells(templates[i], type_args) = <<>>
        /\ rq.result.err = not_found <=>
             /\ rq.pc = "done"
             /\ rq.result.err # "FetchLiveCellsError"
             /\ Len(queried) = Len(templates)
             /\ NoCellIn(templates, type_args)

\* C6: the spore templates, and then the cluster templates, are asked in
\* list order and none after the first that has a cell; the request fails
\* with SporeIdNotFound (ClusterIdNotFound) exactly when every template was
\* asked and none has a cell; and the DNA and the metadata a request goes
\* on with are those of the first cell of the first template that has one.
C6_TemplatesInOrder ==
    [](\A r \in DOMAIN req :
        Did(req[r], {"get_cells"}) =>
            LET spore_id == ParseSporeId(InputText(req[r].hexed)).val
                spore == SporeRecord(FirstCell(available_spores, spore_id)).val
            IN  /\ SearchedInOrder(req[r], available_spores, spore_id,
                                   "SporeIdNotFound")
                /\ Queried(req[r], available_clusters) # <<>> =>
                     SearchedInOrder(req[r], available_clusters, spore.cluster_id,
                                     "ClusterIdNotFound")
                /\ req[r].dob # NoDob =>
                     /\ req[r].dna = spore.dna
                     /\ req[r].dob =
                          ClusterRecord(FirstCell(available_clusters,
                                                  spore.cluster_id)).val)

\* C6's case: one request asked every spore template in vain, another
\* found its spore under the second template and went on
C6_Witness ==
    \E r, q \in DOMAIN req :
        /\ req[r].result.err = "SporeIdNotFound"
        /\ Len(Queried(req[r], available_spores)) = Len(available_spores)
        /\ Len(Queried(req[q], available_spores)) = Len(available_spores)
        /\ Queried(req[q], available_clusters) # <<>>

\* the characters hex::decode takes for digits
HexChars == {"0", "1", "2", "3", "4", "5", "6", "7", "8", "9",
             "a", "b", "c", "d", "e", "f", "A", "B", "C", "D", "E", "F"}
\* the identifier of a request after an optional 0x
Identifier(rq) == StripPrefix0x(InputText(rq.hexed))
IsHex(t) == Len(t) % 2 = 0 /\ \A i \in DOMAIN t : t[i] \in HexChars
\* a request that has been polled
Polled(rq) == rq.pc # "start" /\ ~(rq.pc = "cancelled" /\ rq.log = <<>>)

\* C7, as the specification states it: an identifier of the wrong length
\* fails with SporeIdLengthInvalid, and an identifier holding a character
\* that is no hex digit fails with HexedSporeIdParseError.
C7_ErrorByKind ==
    \A r \in DOMAIN req :
        Polled(req[r]) =>
            /\ Len(Identifier(req[r])) # 2 * IdBytes =>
                 req[r].result.err = "SporeIdLengthInvalid"
            /\ (\E i \in DOMAIN Identifier(req[r]) :
                   Identifier(req[r])[i] \notin HexChars) =>
                 req[r].result.err = "HexedSporeIdParseError"

\* C7, amended: an identifier that is not hex (a character that is no hex
\* digit, or an odd number of digits) fails with HexedSporeIdParseError,
\* whatever its length; an identifier that is hex and not of 32 bytes fails
\* with SporeIdLengthInvalid; any other identifier fails with neither.
C7_ErrorByKindAmended ==
    [](\A r \in DOMAIN req :
        Polled(req[r]) =>
            LET id == Identifier(req[r])
                hex == IsHex(id)
                len == Len(id)
            IN  /\ ~hex => req[r].result.err = "HexedSporeIdParseError"
                /\ (hex /\ len # 2 * IdBytes) =>
                     req[r].result.err = "SporeIdLengthInvalid"
                /\ (hex /\ len = 2 * IdBytes) =>
                     req[r].result.err \notin {"HexedSporeIdParseError",
                                               "SporeIdLengthInvalid"})

\* C7's case: an identifier of hex digits and the wrong length was
\* rejected, and so was one of an odd number of hex digits
C7_Witness ==
    \E r, q \in DOMAIN req :
        /\ req[r].result.err = "SporeIdLengthInvalid"
        /\ req[q].result.err = "HexedSporeIdParseError"
        /\ Len(Identifier(req[q])) % 2 = 1
        /\ \A i \in DOMAIN Identifier(req[q]) : Identifier(req[q])[i] \in HexChars

\* C8: a request whose identifier is not 64 hex digits (after an optional
\* 0x) never does I/O: its log stays empty (no lookup of the render cache,
\* no ledger call, no executor, no write); once polled it is done with
\* HexedSporeIdParseError or SporeIdLengthInvalid, and the call that
\* returns holds that error.
C8_InputErrorBeforeIO ==
    [](\A r \in DOMAIN req :
        ~(LET id == Identifier(req[r]) IN IsHex(id) /\ Len(id) = 2 * IdBytes) =>
            /\ req[r].log = <<>>
            /\ req[r].cache_path = ""
            /\ Polled(req[r]) =>
                 /\ req[r].pc = "done"
                 /\ req[r].result.st = "err"
                 /\ req[r].result.err \in {"HexedSporeIdParseError", "SporeIdLengthInvalid"}
            /\ calls[req[r].call].status = "returned" =>
                 \E i \in DOMAIN calls[req[r].call].reqs :
                     /\ calls[req[r].call].reqs[i] = r
                     /\ calls[req[r].call].results[i] = req[r].result
                     /\ calls[req[r].call].results[i].st = "err")

\* C8's case: a call has returned the error of a bad identifier while
\* another request, of a good identifier, has done I/O
C8_Witness ==
    \E r, q \in DOMAIN req :
        /\ req[r].result.err \in {"HexedSporeIdParseError", "SporeIdLengthInvalid"}
        /\ calls[req[r].call].status = "returned"
        /\ req[q].log # <<>>

\* C9: after write_dob_to_cache(r, c, path), read_dob_from_cache(path)
\* returns Ok((r, c)), for every r without a line break and every c.
C9_RoundTrip ==
    \A i \in DOMAIN calls :
        (/\ calls[i].kind = "read_dob_from_cache"
         /\ \A k \in DOMAIN calls[1].render_result : calls[1].render_result[k] # NL)
        => calls[i].result = Ok([render_output |-> calls[1].render_result,
                                 dob_content |-> calls[1].dob_content])

\* C9's case: a render output of two characters and no line break, and a
\* nested content with a line break in a string, were written and read back
C9_Witness ==
    /\ Len(calls) = 2
    /\ calls[2].kind = "read_dob_from_cache"
    /\ calls[1].render_result = <<QUOTE, " ">>
    /\ calls[1].dob_content = JObj(<< <<<<"a">>, JStr(<<NL>>)>>, <<<<"b">>, JStr(<<NL>>)>> >>)
    /\ calls[2].result.st = "ok"

\* the first two lines of the file a request read
MalformedEntry(file_content) ==
    \/ Len(SplitNL(file_content, <<>>)) < 2
    \/ ~FromJsonStr(SplitNL(file_content, <<>>)[2]).ok

\* C10: a request that read a render-cache entry of fewer than two lines,
\* or whose second line is no JSON, has failed with DOBRenderCacheModified,
\* and has made no ledger call, run no executor and written no file.
C10_MalformedEntryReported ==
    \A r \in DOMAIN req :
        (Did(req[r], {"read"}) /\ MalformedEntry(req[r].file_content)) =>
            /\ req[r].pc = "done"
            /\ req[r].result.st = "err"
            /\ req[r].result.err = "DOBRenderCacheModified"
            /\ ~Did(req[r], LedgerOps \cup {"execute", "create", "write", "missing"})

\* C10's case: an entry of one line and an entry whose second line is no
\* JSON have both been read
C10_Witness ==
    \E r, q \in DOMAIN req :
        /\ Did(req[r], {"read"})
        /\ Len(SplitNL(req[r].file_content, <<>>)) < 2
        /\ req[r].result.err = "DOBRenderCacheModified"
        /\ Did(req[q], {"read"})
        /\ Len(SplitNL(req[q].file_content, <<>>)) >= 2
        /\ req[q].result.err = "DOBRenderCacheModified"

\* the executor's run for request r, in the state before its execute step
RunOf(r) ==
    execute_riscv_binary(decoders[req[r].decoder_path], req[r].dna,
                         PatternText(req[r].dob.pattern))
\* request r takes its execute step
Executes(r) ==
    /\ r \in DOMAIN req
    /\ req[r].pc = "execute"
    /\ req'[r].pc \notin {"execute", "cancelled"}

\* C11, as the specification states it: a request whose executor exited
\* with 0 and printed a line does not abort, whatever the line is: it never
\* panics, and once it has written the render cache it has returned a
\* result.
C11_RenderOutputOpaque ==
    \A r \in DOMAIN req :
        (Did(req[r], {"execute"}) /\ req[r].render_output # <<>>) =>
            /\ req[r].pc # "panicked"
            /\ DidAt(req[r], {"write"}, req[r].cache_path) =>
                 req[r].pc = "done" /\ req[r].result.st = "ok"

\* C12: the execute step of a request maps the executor's outcome: a run
\* that failed gives DecoderExecutionError; a non-zero exit code gives
\* DecoderExecutionInternalError, output or not; exit code 0 and no output
\* gives DecoderOutputInvalid; otherwise the request goes on with exactly
\* the first output line.
C12_ExecutorOutcomeMapped ==
    [][\A r \in DOMAIN req :
          Executes(r) =>
             IF RunOf(r).st # "ok"
             THEN req'[r].pc = "done" /\ req'[r].result = Err("DecoderExecutionError", NoResult)
             ELSE IF RunOf(r).val.exit_code # 0
             THEN /\ req'[r].pc = "done"
                  /\ req'[r].result = Err("DecoderExecutionInternalError", NoResult)
             ELSE IF RunOf(r).val.outputs = <<>>
             THEN req'[r].pc = "done" /\ req'[r].result = Err("DecoderOutputInvalid", NoResult)
             ELSE /\ req'[r].pc = "write_dob"
                  /\ req'[r].render_output = RunOf(r).val.outputs[1]]_vars

\* C12's case: a decoder that printed a line and exited with 1, and a
\* decoder that exited with 0 and printed nothing, have both been run
C12_Witness ==
    \E r, q \in DOMAIN req :
        /\ Did(req[r], {"execute"})
        /\ req[r].result.err = "DecoderExecutionInternalError"
        /\ decoders[req[r].decoder_path] = BinExit
        /\ Did(req[q], {"execute"})
        /\ req[q].result.err = "DecoderOutputInvalid"

\* the identifier a request that got past the parse asks the ledger for
RequestedId(rq) == ParseSporeId(InputText(rq.hexed)).val
\* the request was answered the cell of its spore
SporeAnswered(rq, spore_id) ==
    \E i \in DOMAIN rq.log :
        /\ rq.log[i].op = "get_cells"
        /\ \E t \in DOMAIN available_spores : available_spores[t] = rq.log[i].arg
        /\ get_cells(rq.log[i].arg, spore_id) # <<>>
        /\ i < Len(rq.log) \/ rq.result.err # "FetchLiveCellsError"
\* the request ended with this error at the spore record: it asked for no
\* cluster, resolved no decoder, ran nothing and wrote nothing
RejectedAtRecord(rq, e) ==
    /\ rq.pc = "done"
    /\ rq.result = Err(e, NoResult)
    /\ Queried(rq, available_clusters) = <<>>
    /\ rq.decoder_path = ""
    /\ ~Did(rq, {"get_live_cell", "blake2b_256", "execute", "create", "write"})
    /\ ~DidAt(rq, {"get_cells"}, TYPE_ID_CODE_HASH)
    /\ rq.cache_path \notin DOMAIN dobs

\* C13: a request that was answered a spore cell whose content type starts
\* with no configured protocol version has failed with
\* DOBVersionUnexpected; one whose content type is accepted and whose
\* cluster id is absent has failed with ClusterIdNotSet; either has asked
\* for no cluster, resolved no decoder, run nothing and written no file.
C13_RecordRejected ==
    [](\A r \in DOMAIN req :
        Did(req[r], {"get_cells"}) =>
            LET spore_id == RequestedId(req[r])
                data == FirstCell(available_spores, spore_id).output_data
                accepted == \E i \in DOMAIN protocol_versions :
                                HasPrefix(data.content_type, protocol_versions[i])
            IN  SporeAnswered(req[r], spore_id) =>
                   /\ ~accepted => RejectedAtRecord(req[r], "DOBVersionUnexpected")
                   /\ (accepted /\ ~data.cluster_id.some) =>
                        RejectedAtRecord(req[r], "ClusterIdNotSet"))

\* C13's case: a spore of another protocol version and a spore without a
\* cluster id have both been found and rejected
C13_Witness ==
    \E r, q \in DOMAIN req :
        /\ Did(req[r], {"get_cells"})
        /\ req[r].result.err = "DOBVersionUnexpected"
        /\ Did(req[q], {"get_cells"})
        /\ req[q].result.err = "ClusterIdNotSet"

\* the content rule, read off the parsed payload: the DNA a JSON value
\* resolves to, if it resolves to a string
RuleDna(v) ==
    CASE v.t = "str" -> <<v.s>>
      [] v.t = "arr" /\ v.a # <<>> /\ v.a[1].t = "str" -> <<v.a[1].s>>
      [] v.t = "obj" ->
           LET hits == {i \in DOMAIN v.o : v.o[i][1] = <<"d", "n", "a">> /\ v.o[i][2].t = "str"}
           IN IF hits = {} THEN <<>> ELSE <<v.o[CHOOSE i \in hits : TRUE][2].s>>
      [] OTHER -> <<>>

\* C14, as the specification states it: a payload whose first byte is 0x00
\* gives the hex of the other bytes as DNA and, as a JSON string, as
\* content; a JSON payload that resolves to a string gives the parsed value
\* and that string; every other payload, the empty one included, gives
\* DOBContentUnexpected.
C14_ContentRule ==
    \A i \in DOMAIN calls :
        calls[i].kind = "decode_spore_data" =>
            LET p == calls[i].spore_data
                json == FromJsonSlice(p)
            IN  IF p # <<>> /\ p[1] = 0
                THEN calls[i].result =
                        Ok([content |-> JStr(HexEncode(Tail(p))), dna |-> HexEncode(Tail(p))])
                ELSE IF p # <<>> /\ json.ok /\ RuleDna(json.val) # <<>>
                THEN calls[i].result =
                        Ok([content |-> json.val, dna |-> RuleDna(json.val)[1]])
                ELSE calls[i].result = Err("DOBContentUnexpected", NoContent)

\* the request looked for its decoder's file and did not find it
DecoderUncached(rq) == DidAt(rq, {"missing"}, rq.decoder_path)
\* how often a request did one of these things
Count(rq, ops) == Len(SelectSeq(rq.log, LAMBDA e : e.op \in ops))

\* C15: a request for a TypeId decoder that is not cached asks the type-id
\* template for the cell whose args are the hash, once, and makes no
\* live-cell read and no digest; if there is no such cell it has failed
\* with DecoderIdNotFound and no decoder file was created; if there is one
\* (and the ledger answered) the binary it goes on with is the cell's data,
\* whatever its digest, the file it writes lies under the type_id key, and
\* after the write it holds that data and the request executes it.
C15_TypeIdResolved ==
    \A r \in DOMAIN req :
        (req[r].dob.decoder.location = "TypeId" /\ DecoderUncached(req[r])) =>
            LET hash == req[r].dob.decoder.hash
                cells == get_cells(TYPE_ID_CODE_HASH, hash)
            IN  /\ req[r].decoder_path = "type_id_" \o Cat(HexEncode(hash)) \o ".bin"
                /\ Count(req[r], {"get_cells"}) - Len(Queried(req[r], available_spores))
                     - Len(Queried(req[r], available_clusters)) = 1
                /\ DidAt(req[r], {"get_cells"}, TYPE_ID_CODE_HASH)
                /\ ~Did(req[r], {"get_live_cell", "blake2b_256"})
                /\ cells = <<>> =>
                     /\ req[r].pc = "done"
                     /\ req[r].result.err \in {"DecoderIdNotFound", "FetchLiveCellsError"}
                     /\ ~Did(req[r], {"create", "write", "execute"})
                     /\ req[r].decoder_path \notin DOMAIN decoders
                /\ (cells # <<>> /\ req[r].result.err # "FetchLiveCellsError") =>
                     /\ req[r].decoder_file_content = cells[1].output_data.bytes
                     /\ req[r].result.err # "DecoderBinaryHashInvalid"
                     /\ req[r].pc = "execute" => decoders[req[r].decoder_path] \in
                                                   {<<>>, cells[1].output_data.bytes}
                     /\ Did(req[r], {"execute"}) =>
                          /\ DidAt(req[r], {"write"}, req[r].decoder_path)
                          /\ req[r].decoder_path \in DOMAIN decoders

\* C15's case: a TypeId decoder that is in no cell was asked for, and one
\* whose cell holds data of another digest was written and executed
C15_Witness ==
    \E r, q \in DOMAIN req :
        /\ req[r].dob.decoder.location = "TypeId"
        /\ req[r].result.err = "DecoderIdNotFound"
        /\ req[q].dob.decoder.location = "TypeId"
        /\ DidAt(req[q], {"write"}, req[q].decoder_path)
        /\ Did(req[q], {"execute"})
        /\ blake2b_256(req[q].decoder_file_content) # req[q].dob.decoder.hash

\* C16: a request for a CodeHash decoder that is not cached and whose hash
\* is the code_hash of no deployment has failed with NativeDecoderNotFound;
\* looking for the file was the last thing it did: no ledger call, no
\* digest, no file created or written, nothing executed.
C16_UndeployedRejected ==
    \A r \in DOMAIN req :
        (/\ req[r].dob.decoder.location = "CodeHash"
         /\ DecoderUncached(req[r])
         /\ \A i \in DOMAIN onchain_decoder_deployment :
               onchain_decoder_deployment[i].code_hash # req[r].dob.decoder.hash)
        => /\ req[r].pc = "done"
           /\ req[r].result = Err("NativeDecoderNotFound", NoResult)
           /\ req[r].log[Len(req[r].log)] = Ev("missing", req[r].decoder_path)
           /\ ~Did(req[r], {"get_live_cell", "blake2b_256", "create", "write", "execute"})
           /\ req[r].decoder_path \notin DOMAIN decoders

\* C16's case: the decoder of spore 14 is in no deployment
C16_Witness ==
    \E r \in DOMAIN req :
        /\ DecoderUncached(req[r])
        /\ req[r].result.err = "NativeDecoderNotFound"

\* the step of the pipeline an I/O call of a request belongs to: the render
\* cache lookup (0), the object record (1), the cluster record (2), the
\* decoder binary: lookup, fetch, digest, file (3..6), the execution (7),
\* the render cache write (8)
InList(x, list) == \E i \in DOMAIN list : list[i] = x
StepOf(rq, e) ==
    CASE e.op = "get_cells" /\ InList(e.arg, available_spores) -> 1
      [] e.op = "get_cells" /\ InList(e.arg, available_clusters) -> 2
      [] e.op \in {"missing", "exists"} /\ e.arg = rq.decoder_path -> 3
      [] e.op \in {"get_live_cell", "get_cells"} -> 4
      [] e.op = "blake2b_256" -> 5
      [] e.op \in {"create", "write"} /\ e.arg = rq.decoder_path -> 6
      [] e.op = "execute" -> 7
      [] e.op \in {"create", "write"} /\ e.arg = rq.cache_path -> 8
      [] OTHER -> 0
StepsDone(rq) == {StepOf(rq, rq.log[i]) : i \in DOMAIN rq.log}

\* C17: the I/O calls of a request that missed the render cache are made in
\* the order of the pipeline's steps; a step is started only when the step
\* before it was made and succeeded (the cluster is asked for after the
\* spore record was decoded, the decoder resolved after the metadata was
\* decoded, the execution after the decoder's file is there, the cache
\* write after a render output was returned); and a result is returned
\* only after the render cache was written, as the last thing done.
C17_StepsInOrder ==
    [](\A r \in DOMAIN req :
        DidAt(req[r], {"missing"}, req[r].cache_path) =>
            LET rq == req[r]
                steps == StepsDone(rq)
            IN  /\ \A i \in 1..(Len(rq.log) - 1) :
                     StepOf(rq, rq.log[i]) <= StepOf(rq, rq.log[i + 1])
                /\ rq.log[1] = Ev("missing", rq.cache_path)
                /\ 2 \in steps =>
                     /\ 1 \in steps
                     /\ SporeRecord(FirstCell(available_spores, RequestedId(rq))).st = "ok"
                /\ 3 \in steps => 2 \in steps /\ rq.dob # NoDob
                /\ 7 \in steps =>
                     /\ 3 \in steps
                     /\ \/ DidAt(rq, {"exists"}, rq.decoder_path)
                        \/ DidAt(rq, {"write"}, rq.decoder_path)
                /\ 6 \in steps => 4 \in steps
                /\ 8 \in steps => 7 \in steps /\ rq.render_output # <<>>
                /\ rq.result.st \in {"ok", "panic"} /\ rq.pc \in {"done", "panicked"}
                      /\ 7 \in steps =>
                     rq.log[Len(rq.log)] = Ev("write", rq.cache_path)
                /\ (rq.pc = "done" /\ rq.result.st = "ok") => 8 \in steps)

\* C17's case: a request missed both caches, fetched and checked a CodeHash
\* decoder, ran it, wrote the render cache and returned
C17_Witness ==
    \E r \in DOMAIN req :
        /\ req[r].pc = "done"
        /\ req[r].result.st = "ok"
        /\ StepsDone(req[r]) = 0..8

\* C18, as the specification states it: of two requests for one object id
\* of which one found no render cache entry, in a run in which no ledger
\* call and no file creation failed, both return, the same result, and
\* after a success the entry holds what a single request writes.
C18_ConcurrentSameResult ==
    \A r, q \in DOMAIN req :
        (/\ r # q
         /\ DidAt(req[r], {"missing"}, req[r].cache_path)
         /\ req[q].cache_path = req[r].cache_path
         /\ req[r].pc = "done" /\ req[q].pc = "done"
         /\ faults = 0)
        => /\ req[r].result = req[q].result
           /\ req[r].result.st = "ok" =>
                dobs[req[r].cache_path] =
                   DobFileContent(req[r].render_output, req[r].content)

\* a request is fetching or executing for its render cache key, or for its
\* decoder's key
InFlight(rq) == DidAt(rq, {"missing"}, rq.cache_path) /\ rq.pc \notin Ended
InFlightDecoder(rq) ==
    /\ DecoderUncached(rq)
    /\ rq.pc \in {"write_decoder", "write_decoder_data"}

\* C19, as the specification states it: at most one fetch/execution is in
\* progress for a render cache key, and at most one fetch for a decoder's
\* key.
C19_OneFetchPerKey ==
    \A r, q \in DOMAIN req :
        r # q =>
            /\ ~(InFlight(req[r]) /\ InFlight(req[q])
                 /\ req[r].cache_path = req[q].cache_path)
            /\ ~(InFlightDecoder(req[r]) /\ InFlightDecoder(req[q])
                 /\ req[r].decoder_path = req[q].decoder_path)

\* the I/O call an error is the error of
FailedCall(err) ==
    CASE err \in {"FetchLiveCellsError", "SporeIdNotFound", "ClusterIdNotFound",
                  "DecoderIdNotFound", "SporeDataUncompatible",
                  "SporeDataContentTypeUncompatible", "DOBVersionUnexpected",
                  "ClusterIdNotSet", "DOBContentUnexpected", "ClusterDataUncompatible",
                  "DOBMetadataUnexpected"} -> {"get_cells"}
      [] err \in {"FetchTransactionError", "NoOutputCellInTransaction",
                  "DecoderBinaryNotFoundInCell"} -> {"get_live_cell"}
      [] err = "DecoderBinaryHashInvalid" -> {"blake2b_256"}
      [] err = "NativeDecoderNotFound" -> {"missing"}
      [] err \in {"DecoderExecutionError", "DecoderExecutionInternalError",
                  "DecoderOutputInvalid"} -> {"execute"}
      [] err = "DOBRenderCacheModified" -> {"read"}
      [] OTHER -> {"missing", "exists", "get_cells", "get_live_cell", "blake2b_256",
                   "create", "write", "execute", "read"}

\* a request makes no I/O call twice: each template is asked at most once,
\* the live cell read at most once, the executor run at most once; and the
\* last call of a request that failed is the call that failed
NoCallTwice(rq) ==
    /\ \A i, j \in DOMAIN rq.log :
         (i # j /\ rq.log[i].op \in {"get_cells", "get_live_cell", "execute"})
         => rq.log[i] # rq.log[j]
    /\ Count(rq, {"get_live_cell"}) <= 1
    /\ Count(rq, {"execute"}) <= 1
    /\ (rq.pc = "done" /\ rq.result.st = "err" /\ rq.log # <<>>
        /\ rq.result.err \notin {"DecoderBinaryPathInvalid", "DOBRenderCacheNotFound"})
       => rq.log[Len(rq.log)].op \in FailedCall(rq.result.err)

\* C20: no request makes an I/O call twice, the last call of a failed
\* request is the one that failed, and a request that has ended does
\* nothing more: its result and its log stay as they are.
C20_NoRetry ==
    /\ [](\A r \in DOMAIN req : NoCallTwice(req[r]))
    /\ [][\A r \in DOMAIN req :
            req[r].pc \in Ended => req'[r] = req[r]]_vars

\* C20's case: a ledger call of a request failed and ended it, and another
\* request's executor failed and ended it
C20_Witness ==
    \E r, q \in DOMAIN req :
        /\ req[r].result.err = "FetchLiveCellsError"
        /\ req[q].pc = "done"
        /\ req[q].result.err \in {"DecoderExecutionError", "DecoderExecutionInternalError",
                                  "DecoderOutputInvalid"}
        /\ Count(req[q], {"execute"}) = 1

\* the request's decoder is named by a code_hash and its file is in the
\* decoder cache
CodeHashCached(rq) ==
    /\ rq.dob.decoder.location = "CodeHash"
    /\ rq.decoder_path # ""
    /\ rq.decoder_path \in DOMAIN decoders

\* C21, as the specification states it: every file of the decoder cache
\* under a code_hash key that a request has found there and is about to
\* run holds content whose blake2b-256 digest is the hash of the key.
C21_CodeHashEntriesVerified ==
    \A r \in DOMAIN req :
        (/\ CodeHashCached(req[r])
         /\ DidAt(req[r], {"exists"}, req[r].decoder_path)
         /\ req[r].pc = "execute")
        => blake2b_256(decoders[req[r].decoder_path]) = req[r].dob.decoder.hash


\* C22, as the specification states it: whenever the executor is invoked,
\* the file at the path it is given is in the decoder cache; for a decoder
\* named by a code_hash the content of that file has the digest the name
\* gives (it passed the check, now or when it was cached); and the
\* execution, whatever its outcome, leaves the decoder cache as it is.
C22_ExecutedBinaryVerified ==
    [][\A r \in DOMAIN req :
         Executes(r) =>
             /\ req[r].decoder_path \in DOMAIN decoders
             /\ req[r].dob.decoder.location = "CodeHash" =>
                  HashMatches(decoders[req[r].decoder_path], req[r].dob.decoder.hash)
             /\ decoders' = decoders]_vars


\* request r takes a step that changes its render-cache file
WritesEntry(r) ==
    /\ req[r].pc \in {"write_dob", "write_dob_data"}
    /\ req'[r].log = Append(req[r].log,
                            Ev(IF req[r].pc = "write_dob" THEN "create" ELSE "write",
                               req[r].cache_path))
    /\ \A p \in DOMAIN dobs' : p # req[r].cache_path => p \in DOMAIN dobs /\ dobs'[p] = dobs[p]
    /\ DOMAIN dobs \subseteq DOMAIN dobs'

\* what a request has ready when it comes to write its entry: the first
\* line its executor printed and the content decoded from its spore
HoldsRender(rq) ==
    /\ Did(rq, {"execute"})
    /\ rq.render_output # <<>>
    /\ rq.cache_path = DobCachePath(RequestedId(rq))
    /\ rq.content = SporeRecord(FirstCell(available_spores, RequestedId(rq))).val.content

AllAskedInVain(rq, templates, type_args) ==
    /\ Len(Queried(rq, templates)) = Len(templates)
    /\ \A i \in DOMAIN templates : Queried(rq, templates)[i].arg = templates[i]
    /\ NoCellIn(templates, type_args)

\* C24: a request that ended with FetchLiveCellsError is done and the
\* failed get_cells is the last thing it did (no later template was asked,
\* nothing else was fetched, run or written); a request ended with
\* SporeIdNotFound (ClusterIdNotFound) only after every spore (cluster)
\* template was asked and none has a cell of the id; and with
\* DecoderIdNotFound only after the one type-id search, which has no cell
\* of the decoder's hash.
C24_FailureIsNotAbsence ==
    [](\A r \in DOMAIN req :
        LET rq == req[r] IN
        /\ rq.result.err = "FetchLiveCellsError" =>
             /\ rq.pc = "done"
             /\ rq.log[Len(rq.log)].op = "get_cells"
             /\ ~Did(rq, {"execute", "create", "write"})
        /\ rq.result.err = "SporeIdNotFound" =>
             /\ AllAskedInVain(rq, available_spores, RequestedId(rq))
             /\ Count(rq, {"get_cells"}) = Len(available_spores)
        /\ rq.result.err = "ClusterIdNotFound" =>
             /\ AllAskedInVain(rq, available_clusters,
                               SporeRecord(FirstCell(available_spores,
                                                     RequestedId(rq))).val.cluster_id)
             /\ Count(rq, {"get_cells"}) =
                  Len(Queried(rq, available_spores)) + Len(available_clusters)
        /\ rq.result.err = "DecoderIdNotFound" =>
             /\ rq.log[Len(rq.log)] = Ev("get_cells", TYPE_ID_CODE_HASH)
             /\ Count(rq, {"get_cells"}) = Len(Queried(rq, available_spores))
                                           + Len(Queried(rq, available_clusters)) + 1
             /\ get_cells(TYPE_ID_CODE_HASH, rq.dob.decoder.hash) = <<>>)

\* C24's case: the search of the first spore template failed for an id
\* whose cell lies under the second, which was not asked; another request
\* asked every template in vain
C24_Witness ==
    \E r, q \in DOMAIN req :
        /\ req[r].result.err = "FetchLiveCellsError"
        /\ Queried(req[r], available_spores) = <<Ev("get_cells", available_spores[1])>>
        /\ get_cells(available_spores[2], RequestedId(req[r])) # <<>>
        /\ req[q].result.err \in {"SporeIdNotFound", "ClusterIdNotFound", "DecoderIdNotFound"}


\* the calls of a request on files of the decoder cache
DecoderFileCalls(rq) ==
    SelectSeq(rq.log, LAMBDA e : \/ e.op = "execute"
                                 \/ /\ e.op \in {"exists", "missing", "create", "write"}
                                    /\ e.arg # rq.cache_path)

\* C25: a request that has come to its decoder looks for, writes and runs
\* one file only, the file of its decoder's location kind and hash; two
\* requests whose decoders differ in the location kind never use the same
\* file, also when the 32-byte hash is the same; and the file a CodeHash
\* request runs never holds a binary that came from a type-id cell without
\* having the digest of the key (it is empty while being written, or has
\* that digest).
C25_KeysSeparatedByKind ==
    [](\A r \in DOMAIN req :
        req[r].decoder_path # "" =>
            /\ req[r].decoder_path =
                 DecoderPath(req[r].dob.decoder.location, req[r].dob.decoder.hash)
            /\ \A i \in DOMAIN DecoderFileCalls(req[r]) :
                 DecoderFileCalls(req[r])[i].arg = req[r].decoder_path
            /\ \A q \in DOMAIN req :
                 (/\ req[q].decoder_path # ""
                  /\ req[q].dob.decoder.location # req[r].dob.decoder.location)
                 => req[q].decoder_path # req[r].decoder_path
            /\ (/\ req[r].dob.decoder.location = "CodeHash"
                /\ req[r].decoder_path \in DOMAIN decoders
                /\ decoders[req[r].decoder_path] # <<>>)
               => HashMatches(decoders[req[r].decoder_path], req[r].dob.decoder.hash))

\* C25's case: a CodeHash decoder and a TypeId decoder of the same hash
\* were both cached, in two files of different content, and both run
C25_Witness ==
    \E r, q \in DOMAIN req :
        /\ req[r].dob.decoder.location = "CodeHash"
        /\ req[q].dob.decoder.location = "TypeId"
        /\ req[r].dob.decoder.hash = req[q].dob.decoder.hash
        /\ Did(req[r], {"execute"})
        /\ Did(req[q], {"execute"})
        /\ DidAt(req[q], {"write"}, req[q].decoder_path)
        /\ req[r].decoder_path \in DOMAIN decoders
        /\ req[q].decoder_path \in DOMAIN decoders
        /\ decoders[req[r].decoder_path] # decoders[req[q].decoder_path]
        /\ decoders[req[q].decoder_path] # <<>>
        /\ decoders[req[r].decoder_path] # <<>>

====
